---- MODULE Spec2Model ----
(***************************************************************************)
(* Bird League API: the JSON-file document store (db.js) with its rotating *)
(* backups, and the admin handlers of server.js that drive it.             *)
(*                                                                         *)
(* A file is a record: [kind |-> "missing"], [kind |-> "corrupt"] (bytes   *)
(* that JSON.parse rejects) or [kind |-> "json", indent, data].  Backup    *)
(* names db-<ISO timestamp>.json are modelled by the millisecond count of  *)
(* their timestamp: the fixed-width ISO text sorts as the number does.     *)
(* Time: `clock` is the last millisecond the process observed; a handler   *)
(* starts d1 ms later and, once it has written a file, its later Date      *)
(* reads may see d2 more.  The clock does not run backwards.  A call of a   *)
(* backup-directory function fails only where fs.fault names it; the calls *)
(* on the primary file succeed.                                            *)
(***************************************************************************)
EXTENDS Integers, Sequences, FiniteSets, TLC

\* db.js:17
MAX_BACKUPS == 30

\* Number of store calls explored from each initial state.
MaxOps == 2

\* Milliseconds that may pass at one point of observation.
Ticks == {0, 1}

----------------------------------------------------------------------------
\* Seed data

Matchup(a, b) == [m1 |-> a, m2 |-> b]

MEMBERS ==
  << [id |-> 1, name |-> "Matthew"],
     [id |-> 2, name |-> "Trevor & Katie"],
     [id |-> 3, name |-> "Marshall"],
     [id |-> 4, name |-> "Dara"],
     [id |-> 5, name |-> "Anna"],
     [id |-> 6, name |-> "Leo & Taylor"],
     [id |-> 7, name |-> "Jack"],
     [id |-> 8, name |-> "Emily"],
     [id |-> 9, name |-> "Grace"],
     [id |-> 10, name |-> "Ben"] >>

\* The literal the module-level array SCHEDULE is initialised with.
SEED_SCHEDULE ==
  << [week |-> 1, status |-> "completed", matchups |->
        << Matchup(2, 1), Matchup(3, 6), Matchup(4, 7), Matchup(5, 8), Matchup(10, 9) >>],
     [week |-> 2, status |-> "completed", matchups |->
        << Matchup(1, 6), Matchup(2, 7), Matchup(3, 8), Matchup(4, 9), Matchup(5, 10) >>],
     [week |-> 3, status |-> "active", matchups |->
        << Matchup(6, 7), Matchup(1, 8), Matchup(2, 9), Matchup(3, 10), Matchup(4, 5) >>],
     [week |-> 4, status |-> "upcoming", matchups |->
        << Matchup(1, 3), Matchup(2, 4), Matchup(5, 6), Matchup(7, 9), Matchup(8, 10) >>],
     [week |-> 5, status |-> "upcoming", matchups |->
        << Matchup(1, 4), Matchup(2, 3), Matchup(5, 7), Matchup(6, 10), Matchup(8, 9) >>],
     [week |-> 6, status |-> "upcoming", matchups |->
        << Matchup(1, 5), Matchup(2, 6), Matchup(3, 9), Matchup(4, 8), Matchup(7, 10) >>] >>

\* The dataset the seed literals describe.
SeedDb ==
  [members |-> MEMBERS, schedule |-> SEED_SCHEDULE, submissions |-> <<>>, judgments |-> <<>>]

----------------------------------------------------------------------------
\* State

VARIABLES
  primary,    \* the file at DB_PATH
  backups,    \* BACKUP_DIR: backup name -> file
  SCHEDULE,   \* the module-level array SCHEDULE of the running process
  clock,      \* last millisecond observed
  last,       \* the last call: its name, arguments and result
  trace,      \* the file-system calls the last call made, in order
  nops,       \* calls made so far
  inflight    \* calls that have started and not returned: id -> position and locals

vars == <<primary, backups, SCHEDULE, clock, last, trace, nops, inflight>>

----------------------------------------------------------------------------
\* Files and serialisation

Missing == [kind |-> "missing"]

Corrupt == [kind |-> "corrupt"]

\* JSON.stringify(db, null, 2)
Serialize(db) == [kind |-> "json", indent |-> 2, data |-> db]

\* JSON.parse succeeds on the file's text
Parses(file) == file.kind = "json"

\* JSON.parse(text), where it succeeds
Parse(file) == file.data

Has(db, field) == field \in DOMAIN db

\* Results of a call
Absent == [kind |-> "absent"]

Threw == [kind |-> "throw"]

Value(v) == [kind |-> "value", value |-> v]

Http(code) == [kind |-> "http", status |-> code]

RECURSIVE Descending(_)
\* [...].sort().reverse() of a set of backup names
Descending(names) ==
  IF names = {} THEN <<>>
  ELSE LET top == CHOOSE n \in names : \A m \in names : m <= n
       IN <<top>> \o Descending(names \ {top})

\* defaultDb(): the seed arrays by reference, fresh empty collections
defaultDb ==
  [members |-> MEMBERS, schedule |-> SCHEDULE, submissions |-> <<>>, judgments |-> <<>>]

----------------------------------------------------------------------------
\* Backup system.  fs = [primary, backups, trace, seen]: the two stores, the
\* file-system calls made so far and the clock values read so far; a field
\* fault, where present, names the backup-directory call that throws.

\* "copy": copyFileSync throws and leaves no file; "torn": it throws and
\* leaves a partial file; "readdir": readdirSync throws; "unlink": unlinkSync
\* throws
Faults == {"copy", "torn", "readdir", "unlink"}

Fault(fs) == IF "fault" \in DOMAIN fs THEN fs.fault ELSE "none"

\* new Date() returning `now`
Observe(fs, now) == [fs EXCEPT !.seen = @ \cup {now}]

\* Pruned with the list left in ascending order (the .reverse() forgotten):
\* the slice then holds the newest names
PrunedAscending(names) ==
  IF Cardinality(names) > MAX_BACKUPS
  THEN {n \in names : Cardinality({m \in names : m < n}) >= MAX_BACKUPS}
  ELSE {}

\* backups.slice(MAX_BACKUPS) of the descending list, taken when the list is
\* longer than MAX_BACKUPS: the names with MAX_BACKUPS or more newer names
Pruned(names) ==
  IF Cardinality(names) > MAX_BACKUPS
  THEN {n \in names : Cardinality({m \in names : m > n}) >= MAX_BACKUPS}
  ELSE {}

\* createBackup left out of the write path
createBackupSkipped(fs, now) == fs

\* The try block runs until a call throws; the catch logs and returns.
createBackup(fs, now) ==
  IF fs.primary.kind = "missing" THEN fs
  ELSE IF Fault(fs) = "copy" THEN Observe(fs, now)
  ELSE IF Fault(fs) = "torn"
  THEN [Observe(fs, now) EXCEPT
          !.backups = [n \in (DOMAIN fs.backups) \cup {now} |->
                         IF n = now THEN Corrupt ELSE fs.backups[n]]]
  ELSE LET copied == [n \in (DOMAIN fs.backups) \cup {now} |->
                        IF n = now THEN fs.primary ELSE fs.backups[n]]
           doomed == IF Fault(fs) = "readdir" THEN <<>>
                     ELSE Descending(Pruned(DOMAIN copied))
           done   == IF Fault(fs) = "unlink" THEN <<>> ELSE doomed
           gone   == {done[i] : i \in 1..Len(done)}
       IN [Observe(fs, now) EXCEPT
             !.backups = [n \in (DOMAIN copied) \ gone |-> copied[n]],
             !.trace = @ \o <<[op |-> "copy", name |-> now, file |-> fs.primary]>>
                         \o [i \in 1..Len(done) |-> [op |-> "unlink", name |-> done[i]]]]

\* write in which an exception of the backup step is not caught and ends the
\* call before the primary is overwritten
writeUnlessBackupFailed(fs, db, now) ==
  LET b == createBackup(fs, now)
  IN IF Fault(fs) # "none" /\ fs.primary.kind # "missing" THEN b
     ELSE [b EXCEPT !.primary = Serialize(db),
                    !.trace = Append(@, [op |-> "write", old |-> b.primary,
                                         file |-> Serialize(db)])]

\* write with the primary overwritten first and the backup taken after
writeBeforeBackup(fs, db, now) ==
  createBackup([fs EXCEPT !.primary = Serialize(db),
                          !.trace = Append(@, [op |-> "write", old |-> fs.primary,
                                               file |-> Serialize(db)])], now)

write(fs, db, now) ==
  LET b == createBackup(fs, now)
  IN [b EXCEPT !.primary = Serialize(db),
               !.trace = Append(@, [op |-> "write", old |-> b.primary,
                                    file |-> Serialize(db)])]

\* read that answers from the dataset the process loaded in its last call,
\* when that call was getFullDb, without opening the file
readCached(fs, now) ==
  IF last.op = "getFullDb"
  THEN [fs |-> fs, db |-> last.ret.value, recovered |-> FALSE]
  ELSE IF Parses(fs.primary)
  THEN [fs |-> fs, db |-> Parse(fs.primary), recovered |-> FALSE]
  ELSE [fs |-> write(fs, defaultDb, now), db |-> defaultDb, recovered |-> TRUE]

\* read whose fallback returns the default dataset without writing it
readWithoutPersist(fs, now) ==
  IF Parses(fs.primary)
  THEN [fs |-> fs, db |-> Parse(fs.primary), recovered |-> FALSE]
  ELSE [fs |-> fs, db |-> defaultDb, recovered |-> TRUE]

read(fs, now) ==
  IF Parses(fs.primary)
  THEN [fs |-> fs, db |-> Parse(fs.primary), recovered |-> FALSE]
  ELSE [fs |-> write(fs, defaultDb, now), db |-> defaultDb, recovered |-> TRUE]

\* A handler's later Date reads: after read() has written, d2 more may have passed
After(r, t1, t2) == IF r.recovered THEN t2 ELSE t1

\* restoreBackup that snapshots before it looks for the named backup
restoreBackupUnchecked(fs, backupName, t1) ==
  LET b == createBackup(fs, t1)
  IN IF backupName \notin DOMAIN b.backups
     THEN [fs |-> b, sched |-> SCHEDULE, ret |-> Absent]
     ELSE IF ~Parses(b.backups[backupName])
     THEN [fs |-> b, sched |-> SCHEDULE, ret |-> Threw]
     ELSE LET db == Parse(b.backups[backupName])
          IN [fs |-> [b EXCEPT !.primary = Serialize(db),
                               !.trace = Append(@, [op |-> "write", old |-> b.primary,
                                                    file |-> Serialize(db)])],
              sched |-> SCHEDULE, ret |-> Value(db)]

restoreBackup(fs, backupName, t1) ==
  IF backupName \notin DOMAIN fs.backups
  THEN [fs |-> fs, sched |-> SCHEDULE, ret |-> Absent]
  ELSE LET b == createBackup(fs, t1)
       IN IF backupName \notin DOMAIN b.backups \/ ~Parses(b.backups[backupName])
          THEN [fs |-> b, sched |-> SCHEDULE, ret |-> Threw]
          ELSE LET db == Parse(b.backups[backupName])
               IN [fs |-> [b EXCEPT !.primary = Serialize(db),
                                    !.trace = Append(@, [op |-> "write", old |-> b.primary,
                                                         file |-> Serialize(db)])],
                   sched |-> SCHEDULE, ret |-> Value(db)]

----------------------------------------------------------------------------
\* Public API

\* findIndex over submissions, 1-based; 0 when none matches
SubmissionIndex(subs, week, memberId) ==
  LET hits == {i \in 1..Len(subs) : subs[i].week = week /\ subs[i].memberId = memberId}
  IN IF hits = {} THEN 0 ELSE CHOOSE i \in hits : \A j \in hits : i <= j

JudgmentIndex(js, j) ==
  LET hits == {i \in 1..Len(js) :
                 js[i].week = j.week /\ js[i].m1Id = j.m1Id /\ js[i].m2Id = j.m2Id}
  IN IF hits = {} THEN 0 ELSE CHOOSE i \in hits : \A k \in hits : i <= k

WeekIndex(schedule, weekNum) ==
  LET hits == {i \in 1..Len(schedule) : schedule[i].week = weekNum}
  IN IF hits = {} THEN 0 ELSE CHOOSE i \in hits : \A j \in hits : i <= j

getFullDb(fs, t1) ==
  LET r == read(fs, t1)
  IN [fs |-> r.fs, sched |-> SCHEDULE, ret |-> Value(r.db)]

\* x.find(pred) || null over a sequence, hits being the indexes of the
\* elements that satisfy pred: the first of them
Find(seq, hits) ==
  IF hits = {} THEN Absent ELSE Value(seq[CHOOSE i \in hits : \A j \in hits : i <= j])

\* read().members: undefined when the dataset has no such property
getMembers(fs, t1) ==
  LET r == read(fs, t1)
  IN [fs |-> r.fs, sched |-> SCHEDULE,
      ret |-> IF Has(r.db, "members") THEN Value(r.db.members) ELSE Absent]

getMember(fs, id, t1) ==
  LET r == read(fs, t1)
      Hits(ms) == {i \in 1..Len(ms) : ms[i].id = id}
  IN [fs |-> r.fs, sched |-> SCHEDULE,
      ret |-> IF Has(r.db, "members") THEN Find(r.db.members, Hits(r.db.members))
              ELSE Threw]

getSchedule(fs, t1) ==
  LET r == read(fs, t1)
  IN [fs |-> r.fs, sched |-> SCHEDULE,
      ret |-> IF Has(r.db, "schedule") THEN Value(r.db.schedule) ELSE Absent]

getWeek(fs, weekNum, t1) ==
  LET r == read(fs, t1)
      Hits(ws) == {i \in 1..Len(ws) : ws[i].week = weekNum}
  IN [fs |-> r.fs, sched |-> SCHEDULE,
      ret |-> IF Has(r.db, "schedule") THEN Find(r.db.schedule, Hits(r.db.schedule))
              ELSE Threw]

getSubmissionsForWeek(fs, week, t1) ==
  LET r == read(fs, t1)
      Hit(x) == x.week = week
  IN [fs |-> r.fs, sched |-> SCHEDULE,
      ret |-> IF Has(r.db, "submissions") THEN Value(SelectSeq(r.db.submissions, Hit))
              ELSE Threw]

getJudgment(fs, week, m1Id, m2Id, t1) ==
  LET r == read(fs, t1)
      Hits(js) == {i \in 1..Len(js) :
                     js[i].week = week /\ js[i].m1Id = m1Id /\ js[i].m2Id = m2Id}
  IN [fs |-> r.fs, sched |-> SCHEDULE,
      ret |-> IF Has(r.db, "judgments") THEN Find(r.db.judgments, Hits(r.db.judgments))
              ELSE Threw]

getJudgmentsForWeek(fs, week, t1) ==
  LET r == read(fs, t1)
  IN [fs |-> r.fs, sched |-> SCHEDULE,
      ret |-> IF Has(r.db, "judgments")
              THEN Value(SelectSeq(r.db.judgments, LAMBDA j : j.week = week))
              ELSE Threw]

\* The names of the backup directory, newest first (the sizes are left out);
\* [] when readdirSync throws
listBackups(fs) ==
  [fs |-> fs, sched |-> SCHEDULE,
   ret |-> IF Fault(fs) = "readdir" THEN Value(<<>>)
           ELSE Value(Descending(DOMAIN fs.backups))]

getSubmission(fs, week, memberId, t1) ==
  LET r == read(fs, t1)
  IN IF ~Has(r.db, "submissions")
     THEN [fs |-> r.fs, sched |-> SCHEDULE, ret |-> Threw]
     ELSE LET idx == SubmissionIndex(r.db.submissions, week, memberId)
          IN [fs |-> r.fs, sched |-> SCHEDULE,
              ret |-> IF idx = 0 THEN Absent ELSE Value(r.db.submissions[idx])]

upsertSubmission(fs, week, memberId, p, t1, t2) ==
  LET r   == read(fs, t1)
      now == After(r, t1, t2)
      db  == r.db
  IN IF ~Has(db, "submissions")
     THEN [fs |-> r.fs, sched |-> SCHEDULE, ret |-> Threw]
     ELSE LET idx   == SubmissionIndex(db.submissions, week, memberId)
              entry == [id |-> <<"sub", week, memberId>>, week |-> week,
                        memberId |-> memberId, species |-> p.species,
                        description |-> p.description, mediaFiles |-> p.mediaFiles,
                        submittedAt |-> now]
              again == entry @@ [resubmittedAt |-> now,
                                 previousSubmittedAt |-> db.submissions[idx].submittedAt]
              subs  == IF idx > 0 THEN [db.submissions EXCEPT ![idx] = again]
                       ELSE Append(db.submissions, entry)
          IN [fs |-> write(Observe(r.fs, now), [db EXCEPT !.submissions = subs], now),
              sched |-> SCHEDULE,
              ret |-> Value(IF idx > 0 THEN again ELSE entry)]

deleteSubmission(fs, week, memberId, t1, t2) ==
  LET r   == read(fs, t1)
      now == After(r, t1, t2)
      db  == r.db
      Keep(s) == ~(s.week = week /\ s.memberId = memberId)
  IN IF ~Has(db, "submissions")
     THEN [fs |-> r.fs, sched |-> SCHEDULE, ret |-> Threw]
     ELSE [fs |-> write(r.fs, [db EXCEPT !.submissions = SelectSeq(@, Keep)], now),
           sched |-> SCHEDULE, ret |-> Absent]

saveJudgment(fs, judgment, t1, t2) ==
  LET r   == read(fs, t1)
      now == After(r, t1, t2)
      db  == r.db
  IN IF ~Has(db, "judgments")
     THEN [fs |-> r.fs, sched |-> SCHEDULE, ret |-> Threw]
     ELSE LET idx == JudgmentIndex(db.judgments, judgment)
              js  == IF idx > 0 THEN [db.judgments EXCEPT ![idx] = judgment]
                     ELSE Append(db.judgments, judgment)
          IN [fs |-> write(r.fs, [db EXCEPT !.judgments = js], now),
              sched |-> SCHEDULE, ret |-> Value(judgment)]

\* map[m.id] = { id, name, w: 0, l: 0 } for each member in turn: a later
\* member with the same id replaces the row
RowsOf(members) ==
  [id \in {members[i].id : i \in 1..Len(members)} |->
     LET at == CHOOSE i \in 1..Len(members) :
                 /\ members[i].id = id
                 /\ \A k \in (i + 1)..Len(members) : members[k].id # id
     IN [id |-> id, name |-> members[at].name, w |-> 0, l |-> 0]]

\* if (map[id]) map[id].w++
Won(map, id) == IF id \in DOMAIN map THEN [map EXCEPT ![id].w = @ + 1] ELSE map

\* if (map[id]) map[id].l++
Lost(map, id) == IF id \in DOMAIN map THEN [map EXCEPT ![id].l = @ + 1] ELSE map

RECURSIVE Tally(_, _)
\* db.judgments.forEach(...)
Tally(map, judgments) ==
  IF judgments = <<>> THEN map
  ELSE LET j == Head(judgments)
       IN Tally(IF j.winner = "m1" THEN Lost(Won(map, j.m1Id), j.m2Id)
                ELSE IF j.winner = "m2" THEN Lost(Won(map, j.m2Id), j.m1Id)
                ELSE map,
                Tail(judgments))

RECURSIVE AscendingIds(_)
\* Object.values(map): integer keys are enumerated in ascending order
AscendingIds(ids) ==
  IF ids = {} THEN <<>>
  ELSE LET low == CHOOSE n \in ids : \A m \in ids : n <= m
       IN <<low>> \o AscendingIds(ids \ {low})

\* The comparator with the tie-break left out
BeforeByWinsOnly(a, b) == a.w > b.w

\* The comparator of the sort is negative: a goes before b
Before(a, b) == IF b.w # a.w THEN b.w - a.w < 0 ELSE a.l - b.l < 0

RECURSIVE Sorted(_)
\* Array.prototype.sort with the comparator: stable, so a row goes behind
\* the rows it is not before
Sorted(rows) ==
  IF rows = <<>> THEN <<>>
  ELSE LET n     == Len(rows)
           front == Sorted(SubSeq(rows, 1, n - 1))
           stay  == {i \in 1..(n - 1) : ~Before(rows[n], front[i])}
           k     == IF stay = {} THEN 0 ELSE CHOOSE i \in stay : \A j \in stay : j <= i
       IN SubSeq(front, 1, k) \o <<rows[n]>> \o SubSeq(front, k + 1, n - 1)

Standings(db) ==
  LET map == Tally(RowsOf(db.members), db.judgments)
      ids == AscendingIds(DOMAIN map)
  IN Sorted([i \in 1..Len(ids) |-> map[ids[i]]])

getStandings(fs, t1) ==
  LET r == read(fs, t1)
  IN [fs |-> r.fs, sched |-> SCHEDULE,
      ret |-> IF Has(r.db, "members") /\ Has(r.db, "judgments")
              THEN Value(Standings(r.db)) ELSE Threw]

\* setWeekStatus that writes the dataset back whether or not it found the week
setWeekStatusAlwaysWrites(fs, weekNum, status, t1, t2) ==
  LET r   == read(fs, t1)
      now == After(r, t1, t2)
      db  == r.db
      i   == WeekIndex(db.schedule, weekNum)
  IN IF i = 0
     THEN [fs |-> write(r.fs, db, now), sched |-> SCHEDULE, ret |-> Absent]
     ELSE LET schedule == [db.schedule EXCEPT ![i].status = status]
          IN [fs |-> write(r.fs, [db EXCEPT !.schedule = schedule], now),
              sched |-> IF r.recovered THEN schedule ELSE SCHEDULE,
              ret |-> Value(schedule[i])]

\* week = db.schedule.find(...); week.status = status.  When read() fell back
\* to defaultDb(), db.schedule is the array SCHEDULE itself.
setWeekStatus(fs, weekNum, status, t1, t2) ==
  LET r   == read(fs, t1)
      now == After(r, t1, t2)
      db  == r.db
      i   == WeekIndex(db.schedule, weekNum)
  IN IF i = 0
     THEN [fs |-> r.fs, sched |-> SCHEDULE, ret |-> Absent]
     ELSE LET schedule == [db.schedule EXCEPT ![i].status = status]
          IN [fs |-> write(r.fs, [db EXCEPT !.schedule = schedule], now),
              sched |-> IF r.recovered THEN schedule ELSE SCHEDULE,
              ret |-> Value(schedule[i])]

setWeekMatchups(fs, weekNum, matchups, t1, t2) ==
  LET r   == read(fs, t1)
      now == After(r, t1, t2)
      db  == r.db
      i   == WeekIndex(db.schedule, weekNum)
  IN IF i = 0
     THEN [fs |-> r.fs, sched |-> SCHEDULE, ret |-> Absent]
     ELSE LET schedule == [db.schedule EXCEPT ![i].matchups = matchups]
          IN [fs |-> write(r.fs, [db EXCEPT !.schedule = schedule], now),
              sched |-> IF r.recovered THEN schedule ELSE SCHEDULE,
              ret |-> Value(schedule[i])]

\* createBackup(); write(newDb); return newDb
replaceDb(fs, newDb, t1, t2) ==
  [fs |-> write(createBackup(fs, t1), newDb, t2), sched |-> SCHEDULE, ret |-> Value(newDb)]

reset(fs, t1) ==
  [fs |-> write(fs, defaultDb, t1), sched |-> SCHEDULE, ret |-> Value(defaultDb)]

----------------------------------------------------------------------------
\* server.js: POST /api/admin/restore (the body already parsed to `data`)

adminRestore(fs, data, t1, t2) ==
  IF ~Has(data, "members") \/ ~Has(data, "schedule")
  THEN [fs |-> fs, sched |-> SCHEDULE, ret |-> Http(400)]
  ELSE [replaceDb(fs, data, t1, t2) EXCEPT !.ret = Http(200)]

----------------------------------------------------------------------------
\* Arguments the calls are explored with

Payloads ==
  { [species |-> "Bald Eagle", description |-> "over the river", mediaFiles |-> <<>>],
    [species |-> "Osprey", description |-> "", mediaFiles |-> <<"/api/media/3/1/a.png">>] }

\* (week, memberId) keys
UpsertArgs == { <<3, 1>>, <<3, 8>> }

DeleteArgs == { <<3, 1>> }

\* validStatuses of the status handler
Statuses == {"upcoming", "active", "completed"}

\* (weekNum, status): week 7 is in no schedule, "archived" is no status
StatusArgs == { <<3, "completed">>, <<3, "archived">>, <<7, "completed">> }

MatchupArgs == { <<3, << Matchup(1, 8) >> >>, <<7, << Matchup(1, 8) >> >> }

JudgmentArgs ==
  { [week |-> 3, m1Id |-> 1, m2Id |-> 8, winner |-> w] : w \in {"m1", "m2"} }

Submitted(week, memberId, species, at) ==
  [id |-> <<"sub", week, memberId>>, week |-> week, memberId |-> memberId,
   species |-> species, description |-> "", mediaFiles |-> <<>>, submittedAt |-> at]

\* Datasets handed to a full replace: without submissions and judgments,
\* without members, and with two submissions and two judgments under one key
NoSubmissionsDb == [members |-> MEMBERS, schedule |-> SEED_SCHEDULE]

NoMembersDb == [schedule |-> SEED_SCHEDULE, submissions |-> <<>>, judgments |-> <<>>]

TwiceDb ==
  [SeedDb EXCEPT !.submissions =
                   << Submitted(3, 1, "Heron", 1), Submitted(3, 1, "Egret", 2) >>,
                 !.judgments =
                   << [week |-> 3, m1Id |-> 1, m2Id |-> 8, winner |-> "m1"],
                      [week |-> 3, m1Id |-> 1, m2Id |-> 8, winner |-> "m2"] >>]

ReplaceArgs == {NoSubmissionsDb, TwiceDb}

UploadArgs == {NoMembersDb, NoSubmissionsDb}

\* Backup names asked for: 0 names no backup, 1 and 2 are the oldest of a full
\* directory, MAX_BACKUPS + 1 is the first name this run can create
RestoreArgs == {0, 1, 2, MAX_BACKUPS + 1}

----------------------------------------------------------------------------
\* Initial states: the data volume as the process finds it: empty, holding a
\* primary file a crash truncated, or in service with a full backup directory

\* A dataset an earlier run left behind
EarlierDb ==
  [SeedDb EXCEPT !.schedule[3].status = "upcoming",
                 !.submissions = << Submitted(2, 1, "Wren", 1) >>]

\* Backups db-1 .. db-n of earlier runs
EarlierBackups(n) ==
  [i \in 1..n |-> IF i = 1 THEN Serialize(EarlierDb) ELSE Serialize(SeedDb)]

InitVolumes ==
  { [primary |-> Missing, backups |-> EarlierBackups(0)],
    [primary |-> Corrupt, backups |-> EarlierBackups(0)],
    [primary |-> Serialize(SeedDb), backups |-> EarlierBackups(MAX_BACKUPS)] }

Init ==
  /\ \E v \in InitVolumes : primary = v.primary /\ backups = v.backups
  /\ SCHEDULE = SEED_SCHEDULE
  /\ clock = MAX_BACKUPS + 1
  /\ last = [op |-> "start"]
  /\ trace = <<>>
  /\ nops = 0
  /\ inflight = <<>>

----------------------------------------------------------------------------
\* Actions: one call each

Fs == [primary |-> primary, backups |-> backups, trace |-> <<>>, seen |-> {}]

\* The effects r of a call whose clock reads were t1 and then t2; only the
\* readings that were made count as time passed
Effects(r, call, t1, t2) ==
  /\ t1 = clock \/ t1 \in r.fs.seen
  /\ t2 = t1 \/ t2 \in r.fs.seen
  /\ primary' = r.fs.primary
  /\ backups' = r.fs.backups
  /\ trace' = r.fs.trace
  /\ SCHEDULE' = r.sched
  /\ clock' = IF t2 \in r.fs.seen THEN t2 ELSE IF t1 \in r.fs.seen THEN t1 ELSE clock
  /\ last' = call @@ [ret |-> r.ret]
  /\ nops' = nops + 1

\* The call ran from its first statement to its return
Apply(r, call, t1, t2) ==
  /\ Effects(r, call, t1, t2)
  /\ inflight' = inflight

GetFullDb ==
  /\ nops < MaxOps
  /\ \E d1 \in Ticks :
       Apply(getFullDb(Fs, clock + d1), [op |-> "getFullDb"], clock + d1, clock + d1)

GetSubmission ==
  /\ nops < MaxOps
  /\ \E k \in DeleteArgs, d1 \in Ticks :
       Apply(getSubmission(Fs, k[1], k[2], clock + d1),
             [op |-> "getSubmission", week |-> k[1], memberId |-> k[2]],
             clock + d1, clock + d1)

UpsertSubmission ==
  /\ nops < MaxOps
  /\ \E k \in UpsertArgs, p \in Payloads, d1 \in Ticks, d2 \in Ticks :
       Apply(upsertSubmission(Fs, k[1], k[2], p, clock + d1, clock + d1 + d2),
             [op |-> "upsertSubmission", week |-> k[1], memberId |-> k[2], payload |-> p],
             clock + d1, clock + d1 + d2)

DeleteSubmission ==
  /\ nops < MaxOps
  /\ \E k \in DeleteArgs, d1 \in Ticks, d2 \in Ticks :
       Apply(deleteSubmission(Fs, k[1], k[2], clock + d1, clock + d1 + d2),
             [op |-> "deleteSubmission", week |-> k[1], memberId |-> k[2]],
             clock + d1, clock + d1 + d2)

SaveJudgment ==
  /\ nops < MaxOps
  /\ \E j \in JudgmentArgs, d1 \in Ticks, d2 \in Ticks :
       Apply(saveJudgment(Fs, j, clock + d1, clock + d1 + d2),
             [op |-> "saveJudgment", judgment |-> j],
             clock + d1, clock + d1 + d2)

SetWeekStatus ==
  /\ nops < MaxOps
  /\ \E a \in StatusArgs, d1 \in Ticks, d2 \in Ticks :
       Apply(setWeekStatus(Fs, a[1], a[2], clock + d1, clock + d1 + d2),
             [op |-> "setWeekStatus", week |-> a[1], status |-> a[2]],
             clock + d1, clock + d1 + d2)

SetWeekMatchups ==
  /\ nops < MaxOps
  /\ \E a \in MatchupArgs, d1 \in Ticks, d2 \in Ticks :
       Apply(setWeekMatchups(Fs, a[1], a[2], clock + d1, clock + d1 + d2),
             [op |-> "setWeekMatchups", week |-> a[1], matchups |-> a[2]],
             clock + d1, clock + d1 + d2)

ReplaceDb ==
  /\ nops < MaxOps
  /\ \E db \in ReplaceArgs, d1 \in Ticks, d2 \in Ticks :
       Apply(replaceDb(Fs, db, clock + d1, clock + d1 + d2),
             [op |-> "replaceDb", newDb |-> db],
             clock + d1, clock + d1 + d2)

AdminRestore ==
  /\ nops < MaxOps
  /\ \E db \in UploadArgs, d1 \in Ticks, d2 \in Ticks :
       Apply(adminRestore(Fs, db, clock + d1, clock + d1 + d2),
             [op |-> "adminRestore", newDb |-> db],
             clock + d1, clock + d1 + d2)

RestoreBackup ==
  /\ nops < MaxOps
  /\ \E name \in RestoreArgs, d1 \in Ticks :
       Apply(restoreBackup(Fs, name, clock + d1),
             [op |-> "restoreBackup", name |-> name],
             clock + d1, clock + d1)

Reset ==
  /\ nops < MaxOps
  /\ \E d1 \in Ticks :
       Apply(reset(Fs, clock + d1), [op |-> "reset"], clock + d1, clock + d1)

Next ==
  \/ GetFullDb
  \/ GetSubmission
  \/ UpsertSubmission
  \/ DeleteSubmission
  \/ SaveJudgment
  \/ SetWeekStatus
  \/ SetWeekMatchups
  \/ ReplaceDb
  \/ AdminRestore
  \/ RestoreBackup
  \/ Reset

Spec == Init /\ [][Next]_vars

----------------------------------------------------------------------------
\* The write path under failure: calls made while a backup-directory function
\* throws, and a process that dies between a write's createBackup() and its
\* writeFileSync.

\* Volumes: a primary file a crash truncated, a store in service whose primary
\* differs from each of its backups, and a full backup directory
FaultVolumes ==
  { [primary |-> Corrupt, backups |-> EarlierBackups(0)],
    [primary |-> Serialize(EarlierDb), backups |-> [n \in 2..3 |-> Serialize(SeedDb)]],
    [primary |-> Serialize(SeedDb), backups |-> EarlierBackups(MAX_BACKUPS)] }

FaultInit ==
  /\ \E v \in FaultVolumes : primary = v.primary /\ backups = v.backups
  /\ SCHEDULE = SEED_SCHEDULE
  /\ clock = MAX_BACKUPS + 1
  /\ last = [op |-> "start"]
  /\ trace = <<>>
  /\ nops = 0
  /\ inflight = <<>>

\* fs on which the backup-directory call `fault` throws
FaultyFs(fault) == Fs @@ [fault |-> fault]

FaultySaveJudgment ==
  /\ nops < MaxOps /\ inflight = <<>>
  /\ \E f \in Faults, j \in JudgmentArgs, d1 \in Ticks :
       Apply(saveJudgment(FaultyFs(f), j, clock + d1, clock + d1),
             [op |-> "saveJudgment", judgment |-> j, fault |-> f],
             clock + d1, clock + d1)

FaultyUpsertSubmission ==
  /\ nops < MaxOps /\ inflight = <<>>
  /\ \E f \in Faults, k \in DeleteArgs, p \in Payloads, d1 \in Ticks :
       Apply(upsertSubmission(FaultyFs(f), k[1], k[2], p, clock + d1, clock + d1),
             [op |-> "upsertSubmission", week |-> k[1], memberId |-> k[2],
              payload |-> p, fault |-> f],
             clock + d1, clock + d1)

FaultyReset ==
  /\ nops < MaxOps /\ inflight = <<>>
  /\ \E f \in Faults, d1 \in Ticks :
       Apply(reset(FaultyFs(f), clock + d1), [op |-> "reset", fault |-> f],
             clock + d1, clock + d1)

\* The call r stopped in its last write(), createBackup() returned and
\* writeFileSync not yet called: the primary is as that write found it
Paused(r) ==
  LET n == Len(r.fs.trace)
  IN [r EXCEPT !.fs.primary = r.fs.trace[n].old,
               !.fs.trace = SubSeq(r.fs.trace, 1, n - 1),
               !.ret = [kind |-> "pending"]]

\* What the paused call has yet to do
Pending(r) ==
  [pre |-> r.fs.trace[Len(r.fs.trace)].old,
   file |-> r.fs.trace[Len(r.fs.trace)].file,
   ret |-> r.ret]

\* A mutating call runs up to the writeFileSync of its write()
Snapshot ==
  /\ nops < MaxOps /\ inflight = <<>>
  /\ \E j \in JudgmentArgs, d1 \in Ticks :
       LET r == saveJudgment(Fs, j, clock + d1, clock + d1)
       IN /\ r.ret.kind = "value"
          /\ Effects(Paused(r), [op |-> "saveJudgment", judgment |-> j],
                     clock + d1, clock + d1)
          /\ inflight' = << Pending(r) >>

\* fs.writeFileSync(DB_PATH, ...) and the return
Overwrite ==
  /\ inflight # <<>>
  /\ primary' = inflight[1].file
  /\ trace' = Append(trace, [op |-> "write", old |-> primary, file |-> inflight[1].file])
  /\ last' = [last EXCEPT !.ret = inflight[1].ret]
  /\ inflight' = <<>>
  /\ UNCHANGED <<backups, SCHEDULE, clock, nops>>

\* The process dies before writeFileSync and is started again: the module is
\* loaded anew, the files are as the dead process left them
Crash ==
  /\ inflight # <<>>
  /\ last' = [op |-> "crash", pre |-> inflight[1].pre, call |-> last]
  /\ SCHEDULE' = SEED_SCHEDULE
  /\ trace' = <<>>
  /\ inflight' = <<>>
  /\ UNCHANGED <<primary, backups, clock, nops>>

\* The running process, between two calls, loads the dataset
ReadBack ==
  /\ inflight = <<>>
  /\ GetFullDb

FaultNext ==
  \/ FaultySaveJudgment
  \/ FaultyUpsertSubmission
  \/ FaultyReset
  \/ Snapshot
  \/ Overwrite
  \/ Crash
  \/ ReadBack

FaultSpec == FaultInit /\ [][FaultNext]_vars

----------------------------------------------------------------------------
\* Two writers on one data directory.  Within one Node process a store call
\* runs to completion; two server processes started on the same DATA_DIR
\* interleave at the file-system calls: the readFileSync of read(), the
\* copyFileSync and unlinkSync of createBackup(), the writeFileSync of write().

\* Writer 1 submits for member 1, writer 2 for member 8, both in week 3
Writers == {1, 2}

WriterKey(w) == IF w = 1 THEN <<3, 1>> ELSE <<3, 8>>

Idle == [pc |-> "idle"]

RaceVolumes ==
  { [primary |-> Missing, backups |-> EarlierBackups(0)],
    [primary |-> Serialize(SeedDb), backups |-> EarlierBackups(0)],
    [primary |-> Serialize(EarlierDb), backups |-> [n \in 2..3 |-> Serialize(SeedDb)]] }

RaceInit ==
  /\ \E v \in RaceVolumes : primary = v.primary /\ backups = v.backups
  /\ SCHEDULE = SEED_SCHEDULE
  /\ clock = MAX_BACKUPS + 1
  /\ last = [op |-> "start"]
  /\ trace = <<>>
  /\ nops = 0
  /\ inflight = [w \in Writers |-> Idle]

\* A write that keeps the submissions another writer stored meanwhile
\* (record-level merge instead of replacing the file)
Merged(old, file) ==
  IF ~Parses(old) THEN file
  ELSE LET Mine(s) == \A i \in 1..Len(Parse(file).submissions) :
                         \/ Parse(file).submissions[i].week # s.week
                         \/ Parse(file).submissions[i].memberId # s.memberId
       IN Serialize([Parse(file) EXCEPT
                       !.submissions = SelectSeq(Parse(old).submissions, Mine) \o @])

\* fs.writeFileSync(DB_PATH, text): the file's content becomes text
Overwritten(old, file) == file

\* upsertSubmission from its first statement to the entry of write(): read()
\* (with its recovery write, if the primary does not parse), findIndex, the
\* new entry, the dataset to write held in memory
RaceRead(w) ==
  /\ inflight[w].pc = "idle"
  /\ \E p \in Payloads, d1 \in Ticks :
       LET k  == WriterKey(w)
           rd == read(Fs, clock + d1)
           r  == upsertSubmission(Fs, k[1], k[2], p, clock + d1, clock + d1)
       IN /\ primary' = rd.fs.primary
          /\ backups' = rd.fs.backups
          /\ clock' = clock + d1
          /\ inflight' = [inflight EXCEPT ![w] =
                            [pc |-> "read", week |-> k[1], memberId |-> k[2],
                             payload |-> p, file |-> Pending(r).file, ret |-> r.ret]]
  /\ nops' = nops + 1
  /\ UNCHANGED <<SCHEDULE, last, trace>>

\* write(): createBackup()
RaceSnapshot(w) ==
  /\ inflight[w].pc = "read"
  /\ \E d1 \in Ticks :
       /\ backups' = createBackup(Fs, clock + d1).backups
       /\ clock' = clock + d1
  /\ inflight' = [inflight EXCEPT ![w].pc = "snapshotted"]
  /\ UNCHANGED <<primary, SCHEDULE, last, trace, nops>>

\* write(): writeFileSync, and the return of upsertSubmission
RaceOverwrite(w) ==
  /\ inflight[w].pc = "snapshotted"
  /\ primary' = Overwritten(primary, inflight[w].file)
  /\ inflight' = [inflight EXCEPT ![w].pc = "done"]
  /\ last' = [op |-> "upsertSubmission", week |-> inflight[w].week,
               memberId |-> inflight[w].memberId, payload |-> inflight[w].payload,
               ret |-> inflight[w].ret]
  /\ UNCHANGED <<backups, SCHEDULE, clock, trace, nops>>

RaceNext ==
  \E w \in Writers :
    \/ RaceRead(w)
    \/ RaceSnapshot(w)
    \/ RaceOverwrite(w)

RaceSpec == RaceInit /\ [][RaceNext]_vars

----------------------------------------------------------------------------
\* Standings: getStandings over stores that hold the seed members and up to
\* MaxJudgments judgments.

MaxJudgments == 3

\* Member 2 beats member 1 (as m1 and as m2), member 3 beats member 2, a
\* judgment without a winner, and one whose m1 is no member
StandingJudgments ==
  { [week |-> 1, m1Id |-> 2, m2Id |-> 1, winner |-> "m1"],
    [week |-> 2, m1Id |-> 1, m2Id |-> 2, winner |-> "m2"],
    [week |-> 3, m1Id |-> 3, m2Id |-> 2, winner |-> "m1"],
    [week |-> 3, m1Id |-> 2, m2Id |-> 3, winner |-> "tie"],
    [week |-> 4, m1Id |-> 11, m2Id |-> 1, winner |-> "m2"] }

StandingsInit ==
  /\ \E n \in 0..MaxJudgments : \E js \in [1..n -> StandingJudgments] :
       primary = Serialize([SeedDb EXCEPT !.judgments = js])
  /\ backups = EarlierBackups(0)
  /\ SCHEDULE = SEED_SCHEDULE
  /\ clock = MAX_BACKUPS + 1
  /\ last = [op |-> "start"]
  /\ trace = <<>>
  /\ nops = 0
  /\ inflight = <<>>

GetStandings ==
  /\ nops < MaxOps
  /\ \E d1 \in Ticks :
       Apply(getStandings(Fs, clock + d1), [op |-> "getStandings"], clock + d1, clock + d1)

StandingsNext == GetStandings

StandingsSpec == StandingsInit /\ [][StandingsNext]_vars

----------------------------------------------------------------------------
\* Accessors: the read-only calls, between calls that replace the primary
\* file's content and edits of the file made outside the process.

\* A store in the middle of week 3
PlayedDb ==
  [SeedDb EXCEPT !.submissions = << Submitted(3, 1, "Heron", 1), Submitted(3, 8, "Egret", 2) >>,
                 !.judgments = << [week |-> 3, m1Id |-> 1, m2Id |-> 8, winner |-> "m1"] >>]

\* PlayedDb after an edit of each collection
EditedDb ==
  [PlayedDb EXCEPT !.members[1].name = "Matt",
                   !.schedule[3].status = "completed",
                   !.submissions = << Submitted(3, 1, "Stork", 3) >>,
                   !.judgments = << [week |-> 3, m1Id |-> 1, m2Id |-> 8, winner |-> "m2"] >>]

\* The file as an editor saved it: the same JSON, indented by four
HandEdited(db) == [kind |-> "json", indent |-> 4, data |-> db]

QueryVolumes ==
  { [primary |-> Missing, backups |-> EarlierBackups(0)],
    [primary |-> Corrupt, backups |-> EarlierBackups(1)],
    [primary |-> Serialize(PlayedDb),
     backups |-> [n \in 2..3 |-> IF n = 2 THEN Serialize(SeedDb) ELSE Serialize(EarlierDb)]] }

QueryInit ==
  /\ \E v \in QueryVolumes : primary = v.primary /\ backups = v.backups
  /\ SCHEDULE = SEED_SCHEDULE
  /\ clock = MAX_BACKUPS + 1
  /\ last = [op |-> "start"]
  /\ trace = <<>>
  /\ nops = 0
  /\ inflight = <<>>

\* Arguments: member 11 and week 7 do not exist
MemberArgs == {1, 11}

WeekArgs == {3, 7}

JudgmentKeys == { <<3, 1, 8>>, <<3, 8, 1>> }

GetMembers ==
  /\ nops < MaxOps
  /\ \E d1 \in Ticks :
       Apply(getMembers(Fs, clock + d1), [op |-> "getMembers"], clock + d1, clock + d1)

GetMember ==
  /\ nops < MaxOps
  /\ \E id \in MemberArgs, d1 \in Ticks :
       Apply(getMember(Fs, id, clock + d1), [op |-> "getMember", id |-> id],
             clock + d1, clock + d1)

GetSchedule ==
  /\ nops < MaxOps
  /\ \E d1 \in Ticks :
       Apply(getSchedule(Fs, clock + d1), [op |-> "getSchedule"], clock + d1, clock + d1)

GetWeek ==
  /\ nops < MaxOps
  /\ \E w \in WeekArgs, d1 \in Ticks :
       Apply(getWeek(Fs, w, clock + d1), [op |-> "getWeek", week |-> w],
             clock + d1, clock + d1)

GetSubmissionsForWeek ==
  /\ nops < MaxOps
  /\ \E w \in WeekArgs, d1 \in Ticks :
       Apply(getSubmissionsForWeek(Fs, w, clock + d1),
             [op |-> "getSubmissionsForWeek", week |-> w], clock + d1, clock + d1)

GetJudgment ==
  /\ nops < MaxOps
  /\ \E k \in JudgmentKeys, d1 \in Ticks :
       Apply(getJudgment(Fs, k[1], k[2], k[3], clock + d1),
             [op |-> "getJudgment", week |-> k[1], m1Id |-> k[2], m2Id |-> k[3]],
             clock + d1, clock + d1)

GetJudgmentsForWeek ==
  /\ nops < MaxOps
  /\ \E w \in WeekArgs, d1 \in Ticks :
       Apply(getJudgmentsForWeek(Fs, w, clock + d1),
             [op |-> "getJudgmentsForWeek", week |-> w], clock + d1, clock + d1)

ListBackups ==
  /\ nops < MaxOps
  /\ Apply(listBackups(Fs), [op |-> "listBackups"], clock, clock)

\* Another process (an editor, cp of a backup file) replaces the content of
\* the primary file
ExternalEdit ==
  /\ \E file \in {HandEdited(EditedDb)} \cup {backups[n] : n \in DOMAIN backups} :
       /\ file # primary
       /\ primary' = file
  /\ UNCHANGED <<backups, SCHEDULE, clock, last, trace, nops, inflight>>

QueryNext ==
  \/ GetMembers
  \/ GetMember
  \/ GetSchedule
  \/ GetWeek
  \/ GetSubmission
  \/ GetSubmissionsForWeek
  \/ GetJudgment
  \/ GetJudgmentsForWeek
  \/ GetStandings
  \/ GetFullDb
  \/ ListBackups
  \/ RestoreBackup
  \/ ReplaceDb
  \/ Reset
  \/ ExternalEdit

QuerySpec == QueryInit /\ [][QueryNext]_vars

----------------------------------------------------------------------------
\* multipart.js.  A byte is a one-character string (CR is "\r"); a byte above
\* 0x7f is written "x" followed by its two hex digits.  A character is a
\* one-character string too when its code is below 0x80, and is written
\* "U+" followed by the four hex digits of its code otherwise.
\* toString("latin1") maps each byte to the character of the same code, so
\* an offset in the decoded string is an offset in the buffer.  The media
\* type and the extension of the saved name are left out; the name
\* crypto.randomUUID() gives is the number of the file within the parse.

CR == "\r"

LF == "\n"

CRLF == <<CR, LF>>

\* The bytes above 0x7f the payloads contain
HighBytes == {"xC3", "xA9", "xE9"}

\* The character toString("latin1") gives for a byte: the one of the same code
Latin1Char(b) ==
  CASE b = "xC3" -> "U+00C3"
    [] b = "xA9" -> "U+00A9"
    [] b = "xE9" -> "U+00E9"
    [] OTHER -> b

\* buf.toString("latin1")
Latin1(buf) == [i \in 1..Len(buf) |-> Latin1Char(buf[i])]

\* Characters String.prototype.trim removes, of those the payloads contain
Whitespace == {" ", "\t", CR, LF}

\* buf holds pat at offset i (1-based)
IsAt(buf, pat, i) ==
  /\ i >= 1 /\ i + Len(pat) - 1 <= Len(buf)
  /\ \A k \in 1..Len(pat) : buf[i + k - 1] = pat[k]

\* buf.indexOf(pat, from): the first offset at or after `from`, 0 for -1
IndexOf(buf, pat, from) ==
  LET hits == {i \in from..(Len(buf) - Len(pat) + 1) : IsAt(buf, pat, i)}
  IN IF hits = {} THEN 0 ELSE CHOOSE i \in hits : \A j \in hits : i <= j

RECURSIVE SplitFrom(_, _, _)
\* The loop of splitBuffer with its variable start
SplitFrom(buf, delim, start) ==
  LET idx == IndexOf(buf, delim, start)
  IN IF idx = 0 THEN << SubSeq(buf, start, Len(buf)) >>
     ELSE (IF idx > start THEN << SubSeq(buf, start, idx - 1) >> ELSE <<>>)
            \o SplitFrom(buf, delim, idx + Len(delim))

splitBuffer(buf, delim) == SplitFrom(buf, delim, 1)

RECURSIVE TrimStart(_)
TrimStart(str) ==
  IF str # <<>> /\ Head(str) \in Whitespace THEN TrimStart(Tail(str)) ELSE str

RECURSIVE TrimEnd(_)
TrimEnd(str) ==
  IF str # <<>> /\ str[Len(str)] \in Whitespace
  THEN TrimEnd(SubSeq(str, 1, Len(str) - 1)) ELSE str

\* str.trim()
Trim(str) == TrimEnd(TrimStart(str))

\* str.endsWith("\r\n")
EndsWithCRLF(str) == Len(str) >= 2 /\ str[Len(str) - 1] = CR /\ str[Len(str)] = LF

NameKey == <<"n", "a", "m", "e">>

FilenameKey == <<"f", "i", "l", "e", "n", "a", "m", "e">>

\* headerStr.match(/key="([^"]+)"/): the capture of the leftmost match, <<>>
\* when there is none.  A match starts where key=" stands, is followed by
\* one or more characters other than a quote, and ends at the next quote.
AttrMatch(headerStr, key) ==
  LET open     == key \o <<"=", "\"">>
      Close(i) == IndexOf(headerStr, <<"\"">>, i + Len(open))
      hits     == {i \in 1..Len(headerStr) :
                     IsAt(headerStr, open, i) /\ Close(i) > i + Len(open)}
  IN IF hits = {} THEN <<>>
     ELSE LET i == CHOOSE h \in hits : \A j \in hits : h <= j
          IN SubSeq(headerStr, i + Len(open), Close(i) - 1)

\* bodyBuf.length > 2 && its last two bytes are CR LF ? bodyBuf.slice(0, -2)
\* : bodyBuf
Trimmed(bodyBuf) ==
  IF Len(bodyBuf) > 2 /\ EndsWithCRLF(bodyBuf)
  THEN SubSeq(bodyBuf, 1, Len(bodyBuf) - 2) ELSE bodyBuf

\* ParsePart with the filename branch left out: every named part is recorded
\* as a field
ParsePartAsField(part) ==
  LET str    == Latin1(part)
      sepIdx == IndexOf(str, CRLF \o CRLF, 1)
  IN IF Trim(str) = <<>> \/ Trim(str) = <<"-", "-">> \/ sepIdx = 0 THEN [kind |-> "skip"]
     ELSE LET nameMatch == AttrMatch(SubSeq(str, 1, sepIdx - 1), NameKey)
              val       == SubSeq(str, sepIdx + 4, Len(str))
          IN IF nameMatch = <<>> THEN [kind |-> "skip"]
             ELSE [kind |-> "field", fieldName |-> nameMatch,
                   value |-> IF EndsWithCRLF(val) THEN SubSeq(val, 1, Len(val) - 2) ELSE val]

\* ParsePart that takes a segment without CR LF CR LF for a header with an
\* empty body
ParsePartHeaderOnly(part) ==
  LET str    == Latin1(part)
      found  == IndexOf(str, CRLF \o CRLF, 1)
      sepIdx == IF found = 0 THEN Len(str) + 1 ELSE found
  IN IF Trim(str) = <<>> \/ Trim(str) = <<"-", "-">> THEN [kind |-> "skip"]
     ELSE LET headerStr     == SubSeq(str, 1, sepIdx - 1)
              nameMatch     == AttrMatch(headerStr, NameKey)
              filenameMatch == AttrMatch(headerStr, FilenameKey)
              val           == SubSeq(str, sepIdx + 4, Len(str))
          IN IF nameMatch = <<>> THEN [kind |-> "skip"]
             ELSE IF filenameMatch # <<>>
             THEN LET trimmed == Trimmed(SubSeq(part, sepIdx + 4, Len(part)))
                  IN [kind |-> "file", fieldName |-> nameMatch,
                      originalName |-> filenameMatch, bytes |-> trimmed,
                      size |-> Len(trimmed)]
             ELSE [kind |-> "field", fieldName |-> nameMatch,
                   value |-> IF EndsWithCRLF(val) THEN SubSeq(val, 1, Len(val) - 2) ELSE val]

\* ParsePart that takes the file branch whenever the header holds filename=",
\* whatever follows the quote
ParsePartByFilenameAttr(part) ==
  LET str    == Latin1(part)
      sepIdx == IndexOf(str, CRLF \o CRLF, 1)
  IN IF Trim(str) = <<>> \/ Trim(str) = <<"-", "-">> \/ sepIdx = 0 THEN [kind |-> "skip"]
     ELSE LET headerStr == SubSeq(str, 1, sepIdx - 1)
              nameMatch == AttrMatch(headerStr, NameKey)
              val       == SubSeq(str, sepIdx + 4, Len(str))
          IN IF nameMatch = <<>> THEN [kind |-> "skip"]
             ELSE IF IndexOf(headerStr, FilenameKey \o <<"=", "\"">>, 1) # 0
             THEN LET trimmed == Trimmed(SubSeq(part, sepIdx + 4, Len(part)))
                  IN [kind |-> "file", fieldName |-> nameMatch,
                      originalName |-> AttrMatch(headerStr, FilenameKey),
                      bytes |-> trimmed, size |-> Len(trimmed)]
             ELSE [kind |-> "field", fieldName |-> nameMatch,
                   value |-> IF EndsWithCRLF(val) THEN SubSeq(val, 1, Len(val) - 2) ELSE val]

\* One turn of the loop over the parts: what the part adds to the result
ParsePart(part) ==
  LET str    == Latin1(part)
      sepIdx == IndexOf(str, CRLF \o CRLF, 1)
  IN IF Trim(str) = <<>> \/ Trim(str) = <<"-", "-">> THEN [kind |-> "skip"]
     ELSE IF sepIdx = 0 THEN [kind |-> "skip"]
     ELSE LET headerStr     == SubSeq(str, 1, sepIdx - 1)
              bodyStart     == sepIdx + 4
              nameMatch     == AttrMatch(headerStr, NameKey)
              filenameMatch == AttrMatch(headerStr, FilenameKey)
          IN IF nameMatch = <<>> THEN [kind |-> "skip"]
             ELSE IF filenameMatch # <<>>
             THEN LET trimmed == Trimmed(SubSeq(part, bodyStart, Len(part)))
                  IN [kind |-> "file", fieldName |-> nameMatch,
                      originalName |-> filenameMatch, bytes |-> trimmed,
                      size |-> Len(trimmed)]
             ELSE LET val == SubSeq(str, bodyStart, Len(str))
                  IN [kind |-> "field", fieldName |-> nameMatch,
                      value |-> IF EndsWithCRLF(val) THEN SubSeq(val, 1, Len(val) - 2)
                                ELSE val]

RECURSIVE ParseParts(_, _)
\* for (const part of parts): result and the file-system calls so far in acc
ParseParts(parts, acc) ==
  IF parts = <<>> THEN acc
  ELSE LET p == ParsePart(Head(parts))
           n == Len(acc.files) + 1
       IN ParseParts(Tail(parts),
            IF p.kind = "file"
            THEN [acc EXCEPT
                    !.files = Append(@, [fieldName |-> p.fieldName,
                                         originalName |-> p.originalName,
                                         savedName |-> n, size |-> p.size]),
                    !.calls = @ \o << [op |-> "mkdir"],
                                      [op |-> "writeFile", name |-> n, bytes |-> p.bytes] >>]
            ELSE IF p.kind = "field"
            THEN [acc EXCEPT
                    !.fields = [k \in (DOMAIN @) \cup {p.fieldName} |->
                                  IF k = p.fieldName THEN p.value ELSE @[k]]]
            ELSE acc)

\* The "end" handler of parseMultipart for a request whose content type
\* declares `boundary`: [fields, files] and the file-system calls made
parseMultipart(buffer, boundary) ==
  ParseParts(splitBuffer(buffer, <<"-", "-">> \o boundary),
             [fields |-> <<>>, files |-> <<>>, calls |-> <<>>])

\* The sender.  A part is [attrs, body]: attrs the attributes of its
\* Content-Disposition line in order, each <<key, value>>.
ContentDisposition == <<"C", "o", "n", "t", "e", "n", "t", "-", "D", "i", "s", "p", "o", "s", "i", "t", "i", "o", "n", ":", " ", "f", "o", "r", "m", "-", "d", "a", "t", "a">>

RECURSIVE AttrText(_)
AttrText(attrs) ==
  IF attrs = <<>> THEN <<>>
  ELSE <<";", " ">> \o Head(attrs)[1] \o <<"=", "\"">> \o Head(attrs)[2] \o <<"\"">>
         \o AttrText(Tail(attrs))

\* What stands between the header line of a part and its body: CR LF CR LF,
\* or what a broken sender put there (the part's field sep)
Separator(part) == IF "sep" \in DOMAIN part THEN part.sep ELSE CRLF \o CRLF

RECURSIVE Encode(_, _)
\* The request body: each part behind a delimiter line, its header line, a
\* blank line, its body and CR LF; then the closing delimiter
Encode(parts, boundary) ==
  IF parts = <<>> THEN <<"-", "-">> \o boundary \o <<"-", "-">> \o CRLF
  ELSE <<"-", "-">> \o boundary \o CRLF
         \o ContentDisposition \o AttrText(Head(parts).attrs) \o Separator(Head(parts))
         \o Head(parts).body \o CRLF
         \o Encode(Tail(parts), boundary)

\* The value of attribute key of a part; <<"absent">> when it has none
AttrOf(part, key) ==
  LET at == {i \in 1..Len(part.attrs) : part.attrs[i][1] = key}
  IN IF at = {} THEN <<"absent">> ELSE part.attrs[CHOOSE i \in at : TRUE][2]

\* Requests
Boundary == <<"X", "Y">>

MaxPayload == 3

MaxParts == 2

\* Payload bytes: line ends, the characters of the delimiter, a byte above
\* 0x7f
PayloadBytes == {CR, LF, "-", "X", "Y", "xE9"}

\* A file part with the payload as its body
Upload(payload) ==
  [attrs |-> << <<NameKey, <<"p">> >>, <<FilenameKey, <<"a", ".", "p", "n", "g">> >> >>, body |-> payload]

\* Parts of a form: a text field, a file, a file input left empty
\* (filename=""), a part with a filename and no name, a file whose filename
\* stands before its name, a second value for the text field, a part with no
\* attribute, a part with a body whose empty filename stands before its name
FormParts ==
  { [attrs |-> << <<NameKey, <<"s">> >> >>, body |-> <<"B">>],
    [attrs |-> << <<NameKey, <<"p">> >>, <<FilenameKey, <<"a", ".", "p", "n", "g">> >> >>, body |-> <<"xE9", CR, LF>>],
    [attrs |-> << <<NameKey, <<"q">> >>, <<FilenameKey, <<>> >> >>, body |-> <<>>],
    [attrs |-> << <<FilenameKey, <<"b">> >> >>, body |-> <<"Y">>],
    [attrs |-> << <<FilenameKey, <<"c">> >>, <<NameKey, <<"r">> >> >>, body |-> <<"Y">>],
    [attrs |-> << <<NameKey, <<"s">> >> >>, body |-> <<"E">>],
    [attrs |-> <<>>, body |-> <<"B">>],
    [attrs |-> << <<FilenameKey, <<>> >>, <<NameKey, <<"t">> >> >>, body |-> <<"B">>] }

\* The requests: one upload of up to MaxPayload bytes that do not contain the
\* delimiter, or a form of up to MaxParts parts
Requests ==
  { << Upload(b) >> :
      b \in {x \in UNION {[1..n -> PayloadBytes] : n \in 0..MaxPayload} :
               IndexOf(x, <<"-", "-">> \o Boundary, 1) = 0} }
  \cup UNION {[1..n -> FormParts] : n \in 0..MaxParts}

\* A request has arrived: its parts are in flight, nothing is parsed yet
ParseInit ==
  /\ \E parts \in Requests : inflight = << [boundary |-> Boundary, parts |-> parts] >>
  /\ primary = Missing
  /\ backups = EarlierBackups(0)
  /\ SCHEDULE = SEED_SCHEDULE
  /\ clock = MAX_BACKUPS + 1
  /\ last = [op |-> "start"]
  /\ trace = <<>>
  /\ nops = 0

\* The request's "end" event: the body is parsed, the files are written
ParseMultipart ==
  /\ inflight # <<>>
  /\ LET req == inflight[1]
         r   == parseMultipart(Encode(req.parts, req.boundary), req.boundary)
     IN /\ last' = [op |-> "parseMultipart", parts |-> req.parts,
                    ret |-> Value([fields |-> r.fields, files |-> r.files])]
        /\ trace' = r.calls
  /\ inflight' = <<>>
  /\ nops' = nops + 1
  /\ UNCHANGED <<primary, backups, SCHEDULE, clock>>

ParseNext == ParseMultipart

ParseSpec == ParseInit /\ [][ParseNext]_vars

----------------------------------------------------------------------------
\* The parser on requests of text in UTF-8 and of segments a broken sender
\* wrote without the blank line between header and body.

\* Parts: the field s in ASCII, with U+00E9 in UTF-8 (C3 A9) and as a lone
\* A9; the field d whose value ends with a line end; a segment for s and a
\* segment for a file without the blank line; a segment without any header;
\* a file
SegmentParts ==
  { [attrs |-> << <<NameKey, <<"s">> >> >>, body |-> <<"A">>],
    [attrs |-> << <<NameKey, <<"s">> >> >>, body |-> <<"xC3", "xA9">>],
    [attrs |-> << <<NameKey, <<"s">> >> >>, body |-> <<"xA9">>],
    [attrs |-> << <<NameKey, <<"d">> >> >>, body |-> <<"A", CR, LF>>],
    [attrs |-> << <<NameKey, <<"s">> >> >>, body |-> <<"B">>, sep |-> CRLF],
    [attrs |-> << <<NameKey, <<"f">> >>, <<FilenameKey, <<"b">> >> >>, body |-> <<"B">>, sep |-> CRLF],
    [attrs |-> <<>>, body |-> <<"B">>, sep |-> <<>>],
    [attrs |-> << <<NameKey, <<"p">> >>, <<FilenameKey, <<"a">> >> >>, body |-> <<"Y">>] }

SegmentRequests == UNION {[1..n -> SegmentParts] : n \in 0..MaxParts}

SegmentInit ==
  /\ \E parts \in SegmentRequests : inflight = << [boundary |-> Boundary, parts |-> parts] >>
  /\ primary = Missing
  /\ backups = EarlierBackups(0)
  /\ SCHEDULE = SEED_SCHEDULE
  /\ clock = MAX_BACKUPS + 1
  /\ last = [op |-> "start"]
  /\ trace = <<>>
  /\ nops = 0

SegmentNext == ParseMultipart

SegmentSpec == SegmentInit /\ [][SegmentNext]_vars

----------------------------------------------------------------------------
\* server.js: POST /api/submit/:week/:memberId and
\* POST /api/admin/week/:week/status.  A handler runs to its await without
\* interruption and, when the body of its request has arrived, from there to
\* its response; the handlers of other requests run in between.  A request is
\* [contentType, parts]; the content type is multipart/form-data and has a
\* field boundary when the header declares one.  The admin check passes.

\* Requests a run handles
MaxRequests == 2

RequestIds == 1..MaxRequests

SpeciesKey == <<"s", "p", "e", "c", "i", "e", "s">>

DescriptionKey == <<"d", "e", "s", "c", "r", "i", "p", "t", "i", "o", "n">>

\* contentType.match(/boundary=(.+)/) that falls back to a default token
boundaryMatchOrDefault(contentType) ==
  IF "boundary" \in DOMAIN contentType /\ contentType.boundary # <<>>
  THEN contentType.boundary ELSE <<"X", "Y">>

\* contentType.match(/boundary=(.+)/): the token; <<>> when there is no
\* match, the header holding no boundary= or nothing behind it
boundaryMatch(contentType) ==
  IF "boundary" \in DOMAIN contentType /\ contentType.boundary # <<>>
  THEN contentType.boundary ELSE <<>>

\* The handler waits for the request body
Await == [kind |-> "await"]

\* fields.key || ""
FieldOr(fields, key) == IF key \in DOMAIN fields THEN fields[key] ELSE <<>>

\* The submit handler from its first statement to `await parseMultipart`,
\* whose promise is rejected at once when there is no boundary
submitReceived(fs, weekNum, memberId, req, t1) ==
  LET w == getWeek(fs, weekNum, t1)
      m == getMember(w.fs, memberId, t1)
      InMatchup(week) == \E i \in 1..Len(week.matchups) :
                           week.matchups[i].m1 = memberId \/ week.matchups[i].m2 = memberId
  IN IF w.ret.kind = "throw" THEN [fs |-> w.fs, sched |-> SCHEDULE, ret |-> Http(500)]
     ELSE IF w.ret = Absent THEN [fs |-> w.fs, sched |-> SCHEDULE, ret |-> Http(404)]
     ELSE IF w.ret.value.status = "completed"
     THEN [fs |-> w.fs, sched |-> SCHEDULE, ret |-> Http(403)]
     ELSE IF m.ret.kind = "throw" THEN [fs |-> m.fs, sched |-> SCHEDULE, ret |-> Http(500)]
     ELSE IF m.ret = Absent THEN [fs |-> m.fs, sched |-> SCHEDULE, ret |-> Http(404)]
     ELSE IF ~InMatchup(w.ret.value) THEN [fs |-> m.fs, sched |-> SCHEDULE, ret |-> Http(400)]
     ELSE IF boundaryMatch(req.contentType) = <<>>
     THEN [fs |-> m.fs, sched |-> SCHEDULE, ret |-> Http(400)]
     ELSE [fs |-> m.fs, sched |-> SCHEDULE, ret |-> Await]

\* The payload the handler builds from the parse result r
Submission(weekNum, memberId, r) ==
  [species |-> FieldOr(r.fields, SpeciesKey),
   description |-> FieldOr(r.fields, DescriptionKey),
   mediaFiles |-> [i \in 1..Len(r.files) |-> <<weekNum, memberId, r.files[i].savedName>>]]

\* The submit handler after the await: the submission p is stored unless its
\* species is empty
submitStored(fs, weekNum, memberId, p, t1) ==
  IF p.species = <<>> THEN [fs |-> fs, sched |-> SCHEDULE, ret |-> Http(400)]
  ELSE LET u == upsertSubmission(fs, weekNum, memberId, p, t1, t1)
       IN [u EXCEPT !.ret = IF u.ret.kind = "value" THEN Http(201) ELSE Http(500)]

\* The parser's file-system calls added to those made so far
Written(fs, r) == [fs EXCEPT !.trace = @ \o r.calls]

\* The parse of the request's body
Parsed(req) ==
  parseMultipart(Encode(req.parts, boundaryMatch(req.contentType)),
                 boundaryMatch(req.contentType))

\* The request's "end" event and the rest of the submit handler: the body is
\* parsed (the parser writes the files), the promise resolves, and the
\* handler goes on
submitParsed(fs, weekNum, memberId, r, t1) ==
  submitStored(Written(fs, r), weekNum, memberId, Submission(weekNum, memberId, r), t1)

\* The status handler after `await readBody(req)`
statusPosted(fs, weekNum, status, t1) ==
  IF status \notin Statuses THEN [fs |-> fs, sched |-> SCHEDULE, ret |-> Http(400)]
  ELSE LET r == setWeekStatus(fs, weekNum, status, t1, t1)
       IN [r EXCEPT !.ret = IF r.ret = Absent THEN Http(404)
                            ELSE IF r.ret.kind = "value" THEN Http(200) ELSE Http(400)]

\* Submit requests: a species and a photo, a photo without species, and the
\* first of them under a content type without boundary
SubmitForm ==
  << [attrs |-> << <<NameKey, SpeciesKey>> >>, body |-> <<"B">>],
     [attrs |-> << <<NameKey, <<"p">> >>, <<FilenameKey, <<"a">> >> >>, body |-> <<"Y">>] >>

SubmitRequests ==
  { [contentType |-> [type |-> "multipart/form-data", boundary |-> Boundary],
     parts |-> SubmitForm],
    [contentType |-> [type |-> "multipart/form-data", boundary |-> Boundary],
     parts |-> Tail(SubmitForm)],
    [contentType |-> [type |-> "multipart/form-data"], parts |-> SubmitForm] }

\* (week, memberId) of the submit requests: member 1 plays in week 3; no
\* week 7
SubmitArgs == { <<3, 1>>, <<7, 1>> }

\* (week, status) of the status requests
PostedStatuses == { <<3, "completed">>, <<3, "active">> }

NoRequest == [pc |-> "none"]

Responded(code) == [pc |-> "done", status |-> code]

SubmitVolumes ==
  { [primary |-> Missing, backups |-> EarlierBackups(0)],
    [primary |-> Corrupt, backups |-> EarlierBackups(0)],
    [primary |-> Serialize(SeedDb), backups |-> EarlierBackups(1)] }

SubmitInit ==
  /\ \E v \in SubmitVolumes : primary = v.primary /\ backups = v.backups
  /\ SCHEDULE = SEED_SCHEDULE
  /\ clock = MAX_BACKUPS + 1
  /\ last = [op |-> "start"]
  /\ trace = <<>>
  /\ nops = 0
  /\ inflight = [id \in RequestIds |-> NoRequest]

\* A submit request arrives: the handler runs to its await or to a response
SubmitReceived(id) ==
  /\ inflight[id] = NoRequest
  /\ \E a \in SubmitArgs, req \in SubmitRequests, d1 \in Ticks :
       LET r == submitReceived(Fs, a[1], a[2], req, clock + d1)
       IN /\ Effects(r, [op |-> "submit", id |-> id, week |-> a[1], memberId |-> a[2],
                         req |-> req], clock + d1, clock + d1)
          /\ inflight' = [inflight EXCEPT ![id] =
                            IF r.ret = Await
                            THEN [pc |-> "parsing", week |-> a[1], memberId |-> a[2],
                                  req |-> req]
                            ELSE Responded(r.ret.status)]

\* The body of a submit request has arrived
SubmitParsed(id) ==
  /\ inflight[id].pc = "parsing"
  /\ \E d1 \in Ticks :
       LET h == inflight[id]
           r == submitParsed(Fs, h.week, h.memberId, Parsed(h.req), clock + d1)
       IN /\ Effects(r, [op |-> "submitParsed", id |-> id, week |-> h.week,
                         memberId |-> h.memberId, req |-> h.req],
                     clock + d1, clock + d1)
          /\ inflight' = [inflight EXCEPT ![id] = Responded(r.ret.status)]

\* A status request arrives: the handler awaits the body
StatusReceived(id) ==
  /\ inflight[id] = NoRequest
  /\ \E a \in PostedStatuses :
       inflight' = [inflight EXCEPT ![id] = [pc |-> "reading", week |-> a[1], status |-> a[2]]]
  /\ UNCHANGED <<primary, backups, SCHEDULE, clock, last, trace, nops>>

\* The body of a status request has arrived
StatusPosted(id) ==
  /\ inflight[id].pc = "reading"
  /\ \E d1 \in Ticks :
       LET h == inflight[id]
           r == statusPosted(Fs, h.week, h.status, clock + d1)
       IN /\ Effects(r, [op |-> "statusPosted", id |-> id, week |-> h.week,
                         status |-> h.status], clock + d1, clock + d1)
          /\ inflight' = [inflight EXCEPT ![id] = Responded(r.ret.status)]

SubmitNext ==
  \E id \in RequestIds :
    \/ SubmitReceived(id)
    \/ SubmitParsed(id)
    \/ StatusReceived(id)
    \/ StatusPosted(id)

SubmitSpec == SubmitInit /\ [][SubmitNext]_vars

----------------------------------------------------------------------------
\* Properties

Collections == {"members", "schedule", "submissions", "judgments"}

WellShaped(db) == \A c \in Collections : Has(db, c)

\* The calls that load the dataset through read()
Readers ==
  {"getFullDb", "getSubmission", "upsertSubmission", "deleteSubmission",
   "saveJudgment", "setWeekStatus", "setWeekMatchups"}

\* The entries of the stored dataset under a (week, memberId) key
Stored(file, week, memberId) ==
  IF Parses(file) /\ Has(Parse(file), "submissions")
  THEN LET subs == Parse(file).submissions
       IN {i \in 1..Len(subs) : subs[i].week = week /\ subs[i].memberId = memberId}
  ELSE {}

Events(kind) == {i \in 1..Len(trace) : trace[i].op = kind}

\* C1: restoreBackup(name), for any name present in the backup directory
\* (holding a dataset), snapshots the current primary and completes with the
\* primary holding the dataset that backup held when the call was made.
C1_RestoreInstallsNamedBackup ==
  [][ (/\ last'.op = "restoreBackup"
       /\ last'.name \in DOMAIN backups
       /\ Parses(backups[last'.name]))
      => /\ last'.ret.kind = "value"
         /\ Parses(primary')
         /\ Parse(primary') = Parse(backups[last'.name])
         /\ primary.kind # "missing" => \E n \in DOMAIN backups' : backups'[n] = primary
    ]_vars

\* C2: the stored dataset never holds two submissions with the same
\* (week, memberId) key.
C2_OneSubmissionPerKey ==
  (Parses(primary) /\ Has(Parse(primary), "submissions"))
    => LET subs == Parse(primary).submissions
       IN \A i, j \in 1..Len(subs) :
            (subs[i].week = subs[j].week /\ subs[i].memberId = subs[j].memberId) => i = j

\* C3: after an upsertSubmission call that returned, exactly one submission is
\* stored under its key and it carries the call's species, description and
\* media references; when an entry was stored under the key before the call
\* it has resubmittedAt and its previousSubmittedAt is that entry's
\* submittedAt, otherwise it has neither field.
C3_UpsertReplaces ==
  [][ (last'.op = "upsertSubmission" /\ last'.ret.kind = "value")
      => LET before == Stored(primary, last'.week, last'.memberId)
             after  == Stored(primary', last'.week, last'.memberId)
         IN /\ Cardinality(after) = 1
            /\ \A i \in after :
                 LET e == Parse(primary').submissions[i]
                 IN /\ e.species = last'.payload.species
                    /\ e.description = last'.payload.description
                    /\ e.mediaFiles = last'.payload.mediaFiles
                    /\ IF before = {}
                       THEN ~Has(e, "resubmittedAt") /\ ~Has(e, "previousSubmittedAt")
                       ELSE /\ Has(e, "resubmittedAt") /\ Has(e, "previousSubmittedAt")
                            /\ \E k \in before :
                                 e.previousSubmittedAt = Parse(primary).submissions[k].submittedAt
    ]_vars

\* C4: the backup directory never holds more than MAX_BACKUPS files; a backup
\* is deleted only right after a copy or another deletion of the same prune,
\* exactly MAX_BACKUPS remain afterwards and each deleted name is older than
\* every name that remains.
C4_Retention ==
  /\ Cardinality(DOMAIN backups) <= MAX_BACKUPS
  /\ \A i \in Events("unlink") :
       /\ i > 1 /\ trace[i - 1].op = "copy"
       /\ Cardinality(DOMAIN backups) = MAX_BACKUPS
       /\ \A n \in DOMAIN backups : trace[i].name < n

\* A write of a mutating call has pushed the directory past the limit and the
\* oldest backup was deleted.
C4_Witness ==
  /\ last.op = "upsertSubmission"
  /\ Events("unlink") # {}
  /\ Cardinality(DOMAIN backups) = MAX_BACKUPS

\* C5: a backup file, once created, keeps its content for as long as it
\* exists, and every write made while the primary file exists leaves a new
\* backup holding the primary's content from before that write.
C5_BackupsImmutable ==
  [][ /\ \A n \in (DOMAIN backups) \cap (DOMAIN backups') : backups'[n] = backups[n]
      /\ (primary.kind # "missing" /\ \E i \in 1..Len(trace') : trace'[i].op = "write")
           => \E n \in (DOMAIN backups') \ (DOMAIN backups) : backups'[n] = primary
    ]_vars

\* C6: every overwrite of an existing primary file comes directly after the
\* copy of the content it replaces and the deletions of that copy's prune, in
\* this order; an overwrite that finds no primary file is preceded by no copy;
\* and the primary holds what the last overwrite wrote.
C6_SnapshotPruneOverwrite ==
  /\ \A i \in Events("write") :
       IF trace[i].old.kind = "missing"
       THEN i = 1 \/ trace[i - 1].op = "write"
       ELSE \E j \in 1..(i - 1) :
              /\ trace[j].op = "copy"
              /\ trace[j].file = trace[i].old
              /\ \A k \in (j + 1)..(i - 1) : trace[k].op = "unlink"
  /\ \A i \in Events("write") :
       (\A k \in Events("write") : k <= i) => primary = trace[i].file

\* A write ran all three steps: copy, prune, overwrite.
C6_Witness ==
  /\ Len(trace) = 3
  /\ last.op = "saveJudgment"
  /\ trace[1].op = "copy" /\ trace[2].op = "unlink" /\ trace[3].op = "write"
  /\ trace[1].file = trace[3].old
  /\ primary # trace[3].old

\* C7: restoreBackup with a name that is not in the backup directory returns
\* an absent result and changes neither the primary file nor the backups.
C7_UnknownBackup ==
  [][ (last'.op = "restoreBackup" /\ last'.name \notin DOMAIN backups)
      => /\ last'.ret = Absent
         /\ primary' = primary
         /\ backups' = backups
    ]_vars

\* restoreBackup was called with an unknown name while the volume held a
\* primary file and backups.
C7_Witness ==
  /\ last.op = "restoreBackup"
  /\ last.name \notin DOMAIN backups
  /\ last.ret = Absent
  /\ primary.kind = "json"
  /\ backups # <<>>

\* C8: a full replace (replaceDb directly, or through the upload handler)
\* with a dataset that lacks one of the four collections changes neither the
\* primary file nor the backups.
C8_ReplaceRejectsBadShape ==
  [][ (last'.op \in {"replaceDb", "adminRestore"} /\ ~WellShaped(last'.newDb))
      => primary' = primary /\ backups' = backups
    ]_vars

\* C9: after reset() the stored dataset is the seed: the seed members, the
\* seed schedule, no submissions, no judgments.
C9_ResetRestoresSeed ==
  last.op = "reset" => (Parses(primary) /\ Parse(primary) = SeedDb)

\* C10: a call that reads the dataset while the primary file is missing or
\* does not parse writes the default dataset first, returns without throwing,
\* and leaves a primary file that parses to a dataset with all four
\* collections.
C10_ReadRecovers ==
  [][ (~Parses(primary) /\ last'.op \in Readers)
      => /\ last'.ret.kind # "throw"
         /\ Parses(primary') /\ WellShaped(Parse(primary'))
         /\ \E i \in 1..Len(trace') :
              /\ trace'[i].op = "write"
              /\ trace'[i].file = Serialize(defaultDb)
              /\ \A k \in 1..(i - 1) : trace'[k].op # "write"
    ]_vars

\* An accessor found a primary file that does not parse and left the default
\* dataset in its place.
C10_Witness ==
  /\ last.op = "getFullDb"
  /\ Len(trace) = 2
  /\ trace[2].op = "write" /\ trace[2].old = Corrupt
  /\ Parses(primary) /\ WellShaped(Parse(primary))

\* C11: a mutating call made while a backup-directory function throws
\* (copy, readdir or unlink) returns its value, its last file-system call is
\* the overwrite of the primary, and the primary then holds the dataset the
\* call built: the judgment saved, the submission upserted, the default
\* dataset of a reset.
C11_FailedBackupDoesNotBlock ==
  [][ (nops' = nops + 1 /\ "fault" \in DOMAIN last')
      => /\ last'.ret.kind = "value"
         /\ trace' # <<>>
         /\ trace'[Len(trace')].op = "write"
         /\ primary' = trace'[Len(trace')].file
         /\ Parses(primary')
         /\ last'.op = "saveJudgment"
              => \E i \in 1..Len(Parse(primary').judgments) :
                   Parse(primary').judgments[i] = last'.judgment
         /\ last'.op = "upsertSubmission"
              => \E i \in 1..Len(Parse(primary').submissions) :
                   Parse(primary').submissions[i] = last'.ret.value
         /\ last'.op = "reset" => primary' = Serialize(last'.ret.value)
    ]_vars

\* copyFileSync threw while a judgment was being saved over an existing
\* primary: no copy was made and the primary holds the judgment.
C11_Witness ==
  /\ last.op = "saveJudgment" /\ "fault" \in DOMAIN last /\ last.fault = "copy"
  /\ Len(trace) = 1 /\ trace[1].op = "write" /\ trace[1].old.kind = "json"
  /\ Parse(primary).judgments # <<>>

\* The content the write in progress, or the write the crash interrupted,
\* found in the primary file
Interrupted == IF inflight # <<>> THEN inflight[1].pre ELSE last.pre

\* C12: while a write is between its snapshot and its overwrite, and after a
\* crash at that point, the primary file holds the content the write found
\* and a backup holds the same content.
C12_CrashKeepsPriorState ==
  (inflight # <<>> \/ last.op = "crash")
    => /\ primary = Interrupted
       /\ \E n \in DOMAIN backups : backups[n] = Interrupted

\* The process died between snapshot and overwrite of a write to a store whose
\* earlier backups all differ from the primary.
C12_Witness ==
  /\ last.op = "crash"
  /\ primary = Serialize(EarlierDb)
  /\ Cardinality({n \in DOMAIN backups : backups[n] = primary}) = 1

\* Writer w built its dataset from a read that did not see the other
\* writer's submission
ReadBeforeOtherWrote(w) ==
  LET o == WriterKey(3 - w)
  IN Stored(inflight[w].file, o[1], o[2]) = {}

\* C13: when both writers have returned and each had read the dataset before
\* the other wrote, the primary file is the dataset of one of them and holds
\* exactly one of the two submissions.
C13_LaterWriteDiscardsEarlier ==
  (/\ DOMAIN inflight = Writers
   /\ \A w \in Writers : inflight[w].pc = "done" /\ ReadBeforeOtherWrote(w))
    => /\ \E w \in Writers : primary = inflight[w].file
       /\ (Stored(primary, 3, 1) = {}) # (Stored(primary, 3, 8) = {})

\* Both upserts returned their entry, and the primary holds the submission of
\* member 8 but not that of member 1.
C13_Witness ==
  /\ DOMAIN inflight = Writers
  /\ \A w \in Writers : inflight[w].pc = "done" /\ inflight[w].ret.kind = "value"
  /\ Stored(primary, 3, 1) = {}
  /\ Stored(primary, 3, 8) # {}

\* The stored judgments whose winner marker names the side `id` is on
WinsOf(db, id) ==
  {k \in 1..Len(db.judgments) :
     \/ db.judgments[k].winner = "m1" /\ db.judgments[k].m1Id = id
     \/ db.judgments[k].winner = "m2" /\ db.judgments[k].m2Id = id}

\* The stored judgments whose winner marker names the side opposite to `id`
LossesOf(db, id) ==
  {k \in 1..Len(db.judgments) :
     \/ db.judgments[k].winner = "m1" /\ db.judgments[k].m2Id = id
     \/ db.judgments[k].winner = "m2" /\ db.judgments[k].m1Id = id}

\* C15: getStandings returns one row per member, with the member's name; the
\* row's win count is the number of judgments whose winner marker names the
\* member's side, its loss count the number whose marker names the opposite
\* side; rows are in descending order of wins and, among equal wins, in
\* ascending order of losses.
C15_Standings ==
  (last.op = "getStandings" /\ Parses(primary))
    => LET db   == Parse(primary)
           rows == last.ret.value
       IN /\ last.ret.kind = "value"
          /\ Len(rows) = Len(db.members)
          /\ \A m \in 1..Len(db.members) :
               \E i \in 1..Len(rows) :
                 /\ rows[i].id = db.members[m].id
                 /\ rows[i].name = db.members[m].name
                 /\ rows[i].w = Cardinality(WinsOf(db, rows[i].id))
                 /\ rows[i].l = Cardinality(LossesOf(db, rows[i].id))
          /\ \A i, j \in 1..Len(rows) :
               i < j => \/ rows[i].w > rows[j].w
                        \/ rows[i].w = rows[j].w /\ rows[i].l <= rows[j].l

\* Member 2 beat member 1 twice and lost once to member 3: member 2 is first
\* with 2 wins and 1 loss, member 3 second with 1 win, member 1 has 2 losses.
C15_Witness ==
  /\ last.op = "getStandings" /\ last.ret.kind = "value"
  /\ Len(Parse(primary).judgments) = 3
  /\ last.ret.value[1] = [id |-> 2, name |-> "Trevor & Katie", w |-> 2, l |-> 1]
  /\ last.ret.value[2].id = 3 /\ last.ret.value[2].w = 1
  /\ \E i \in 3..Len(last.ret.value) :
       last.ret.value[i].id = 1 /\ last.ret.value[i].l = 2

\* The read-only calls of the store
Accessors ==
  {"getMembers", "getMember", "getSchedule", "getWeek", "getSubmission",
   "getSubmissionsForWeek", "getJudgment", "getStandings", "getFullDb"}

\* The element of seq at the least index of `at`, as a result
FirstOf(seq, at) ==
  IF at = {} THEN Absent
  ELSE Value(seq[CHOOSE i \in at : \A k \in 1..(i - 1) : k \notin at])

\* What the accessor call `c` answers from the dataset db
Answer(c, db) ==
  LET InWeek(x) == x.week = c.week
  IN CASE c.op = "getMembers" -> Value(db.members)
       [] c.op = "getMember" ->
            FirstOf(db.members, {i \in 1..Len(db.members) : db.members[i].id = c.id})
       [] c.op = "getSchedule" -> Value(db.schedule)
       [] c.op = "getWeek" ->
            FirstOf(db.schedule, {i \in 1..Len(db.schedule) : db.schedule[i].week = c.week})
       [] c.op = "getSubmission" ->
            FirstOf(db.submissions,
                    {i \in 1..Len(db.submissions) :
                       /\ db.submissions[i].week = c.week
                       /\ db.submissions[i].memberId = c.memberId})
       [] c.op = "getSubmissionsForWeek" -> Value(SelectSeq(db.submissions, InWeek))
       [] c.op = "getJudgment" ->
            FirstOf(db.judgments,
                    {i \in 1..Len(db.judgments) :
                       /\ db.judgments[i].week = c.week
                       /\ db.judgments[i].m1Id = c.m1Id
                       /\ db.judgments[i].m2Id = c.m2Id})
       [] c.op = "getStandings" -> Value(Standings(db))
       [] c.op = "getFullDb" -> Value(db)

\* C14: an accessor called while the primary file holds a dataset with the
\* four collections answers from that dataset, whatever call or outside edit
\* put it there and whatever the process loaded before, and leaves the file
\* as it is.
C14_AccessorsReload ==
  [][ (/\ nops' = nops + 1
       /\ last'.op \in Accessors
       /\ Parses(primary) /\ WellShaped(Parse(primary)))
      => /\ last'.ret = Answer(last', Parse(primary))
         /\ primary' = primary
    ]_vars

\* The process made a call, an outside edit renamed member 1, and getMember
\* answers with the new name.
C14_Witness ==
  /\ last.op = "getMember" /\ last.id = 1
  /\ primary = HandEdited(EditedDb)
  /\ last.ret = Value([id |-> 1, name |-> "Matt"])
  /\ nops = MaxOps

\* C16: a setWeekStatus call whose status is none of upcoming, active,
\* completed returns no week and leaves the primary file and the backups as
\* they were, and every week of the stored schedule has one of the three.
C16_StatusEnumeration ==
  [][ /\ (last'.op = "setWeekStatus" /\ last'.status \notin Statuses)
           => /\ last'.ret.kind # "value"
              /\ Parses(primary) => (primary' = primary /\ backups' = backups)
      /\ (Parses(primary') /\ Has(Parse(primary'), "schedule"))
           => \A i \in 1..Len(Parse(primary').schedule) :
                Parse(primary').schedule[i].status \in Statuses
    ]_vars

\* C17: after a saveJudgment call that returned, the stored dataset holds
\* exactly one judgment under the call's (week, m1Id, m2Id) key, it is the
\* judgment of the call, and the judgments under other keys are as before.
C17_SaveJudgmentUpserts ==
  [][ (last'.op = "saveJudgment" /\ last'.ret.kind = "value" /\ nops' = nops + 1)
      => LET j        == last'.judgment
             Same(x)  == x.week = j.week /\ x.m1Id = j.m1Id /\ x.m2Id = j.m2Id
             Other(x) == ~Same(x)
             before   == IF Parses(primary) THEN Parse(primary).judgments ELSE <<>>
             after    == Parse(primary').judgments
         IN /\ SelectSeq(after, Same) = << j >>
            /\ SelectSeq(after, Other) = SelectSeq(before, Other)
    ]_vars

\* The parts of the parsed request, and what the parse returned
Parts == last.parts

Result == last.ret.value

\* Parts by their attributes
HasName(p) == AttrOf(p, NameKey) \notin {<<"absent">>, <<>>}

HasFilename(p) == AttrOf(p, FilenameKey) # <<"absent">>

HasFile(p) == AttrOf(p, FilenameKey) \notin {<<"absent">>, <<>>}

\* C18: for a request of one attachment part whose body is the payload
\* followed by CR LF, the parse returns one attachment, its size is the
\* payload's length and the bytes written for it are the payload.
C18_AttachmentRoundTrip ==
  (last.op = "parseMultipart" /\ Len(Parts) = 1 /\ Parts[1] = Upload(Parts[1].body))
    => /\ Len(Result.files) = 1
       /\ Result.files[1].size = Len(Parts[1].body)
       /\ \E i \in 1..Len(trace) :
            /\ trace[i].op = "writeFile"
            /\ trace[i].name = Result.files[1].savedName
            /\ trace[i].bytes = Parts[1].body

\* The filenames of the parts that carry a non-empty one, in part order
RECURSIVE Filenames(_)
Filenames(parts) ==
  IF parts = <<>> THEN <<>>
  ELSE (IF HasFile(Head(parts)) THEN << AttrOf(Head(parts), FilenameKey) >> ELSE <<>>)
         \o Filenames(Tail(parts))

\* A request every part of which has a name attribute
ValidRequest ==
  last.op = "parseMultipart" /\ \A i \in 1..Len(Parts) : HasName(Parts[i])

\* C19 as stated: for a valid request the keys of fields are the names of the
\* parts without a filename attribute, and the attachments are the parts
\* with a non-empty filename, in part order.
C19_FieldsAndAttachments ==
  ValidRequest
    => /\ DOMAIN Result.fields =
            {AttrOf(Parts[i], NameKey) : i \in {k \in 1..Len(Parts) : ~HasFilename(Parts[k])}}
       /\ [i \in 1..Len(Result.files) |-> Result.files[i].originalName] = Filenames(Parts)

\* C19, amended: for a valid request the keys of fields are the names of the
\* parts whose filename attribute is absent or empty, and the attachments
\* are the parts with a non-empty filename, in part order.
C19_FieldsAndAttachmentsAmended ==
  ValidRequest
    => /\ DOMAIN Result.fields =
            {AttrOf(Parts[i], NameKey) : i \in {k \in 1..Len(Parts) : ~HasFile(Parts[k])}}
       /\ [i \in 1..Len(Result.files) |-> Result.files[i].originalName] = Filenames(Parts)

\* A form with a file and a file input left empty was parsed: one attachment,
\* and the empty input is a field.
C19_Witness ==
  /\ ValidRequest
  /\ Len(Parts) = 2
  /\ HasFile(Parts[1]) /\ HasFilename(Parts[2]) /\ ~HasFile(Parts[2])
  /\ Len(Result.files) = 1
  /\ DOMAIN Result.fields = {AttrOf(Parts[2], NameKey)}

\* C20: every attachment and every field the parse returns comes from a part
\* with a name attribute and is recorded under that name, so the parts
\* without a name attribute add nothing to the result.
C20_NamelessPartsSkipped ==
  last.op = "parseMultipart"
    => LET named == {k \in 1..Len(Parts) : HasName(Parts[k])}
       IN /\ \A i \in 1..Len(Result.files) :
               \E k \in named :
                 /\ Result.files[i].fieldName = AttrOf(Parts[k], NameKey)
                 /\ Result.files[i].originalName = AttrOf(Parts[k], FilenameKey)
          /\ \A key \in DOMAIN Result.fields :
               \E k \in named : key = AttrOf(Parts[k], NameKey)
          /\ Len(Result.files) + Cardinality(DOMAIN Result.fields) <= Cardinality(named)

\* C26: when a call that reads the dataset finds the primary file missing or
\* not parsing, the write that persists the default dataset (the first write
\* of the call) adds no backup and removes none: no copy and no unlink
\* precedes it.
C26_RecoveryWriteMakesNoBackup ==
  [][ (~Parses(primary) /\ last'.op \in Readers)
      => \A i \in 1..Len(trace') :
           (trace'[i].op = "write" /\ \A k \in 1..(i - 1) : trace'[k].op # "write")
             => \A k \in 1..(i - 1) : trace'[k].op \notin {"copy", "unlink"}
    ]_vars

\* C27: one call adds at most one backup file and prunes at most one.
C27_OneBackupPerCall ==
  [][ /\ Cardinality((DOMAIN backups') \ (DOMAIN backups)) <= 1
      /\ Cardinality((DOMAIN backups) \ (DOMAIN backups')) <= 1
    ]_vars

\* The dataset read() hands to a call made in the current state
Loaded == IF Parses(primary) THEN Parse(primary) ELSE defaultDb

\* The dataset with week i of its schedule replaced by w
WithWeek(db, i, w) == [db EXCEPT !.schedule = [@ EXCEPT ![i] = w]]

\* What a call of setWeekStatus or setWeekMatchups leaves of week w
Updated(call, w) ==
  IF call.op = "setWeekStatus" THEN [w EXCEPT !.status = call.status]
  ELSE [w EXCEPT !.matchups = call.matchups]

\* The call found the week at index i: it returns the week and the primary
\* holds the dataset it read with only that week's status (matchups) changed
WeekUpdated(i) ==
  /\ last'.ret = Value(Updated(last', Loaded.schedule[i]))
  /\ primary' = Serialize(WithWeek(Loaded, i, Updated(last', Loaded.schedule[i])))

\* C29 as stated: setWeekStatus and setWeekMatchups with a week that is not
\* in the schedule return absent and leave the primary file and the backups
\* as they were; with a week of the schedule they change only that week's
\* status (matchups).
C29_WeekUpdateFrame ==
  [][ last'.op \in {"setWeekStatus", "setWeekMatchups"}
      => LET i == WeekIndex(Loaded.schedule, last'.week)
         IN IF i = 0
            THEN last'.ret = Absent /\ primary' = primary /\ backups' = backups
            ELSE WeekUpdated(i)
    ]_vars

\* C29, amended: with a week that is not in the schedule the call returns
\* absent and, when the primary file parses, makes no file-system call and
\* leaves primary and backups as they were; when the primary file is missing
\* or does not parse, its only overwrite is the one that persists the default
\* dataset.  With a week of the schedule it changes only that week's status
\* (matchups).
C29_WeekUpdateFrameAmended ==
  [][ last'.op \in {"setWeekStatus", "setWeekMatchups"}
      => LET i == WeekIndex(Loaded.schedule, last'.week)
             writes == {k \in 1..Len(trace') : trace'[k].op = "write"}
         IN IF i = 0
            THEN /\ last'.ret = Absent
                 /\ IF Parses(primary)
                    THEN trace' = <<>> /\ primary' = primary /\ backups' = backups
                    ELSE /\ Cardinality(writes) = 1
                         /\ \A k \in writes : trace'[k].file = Serialize(defaultDb)
                         /\ primary' = Serialize(defaultDb)
            ELSE WeekUpdated(i)
    ]_vars

\* setWeekMatchups was called with week 7 on a store in service: absent, no
\* file-system call, the full backup directory as it was.
C29_Witness ==
  /\ last.op = "setWeekMatchups" /\ last.week = 7
  /\ last.ret = Absent
  /\ trace = <<>>
  /\ Parses(primary)
  /\ Cardinality(DOMAIN backups) = MAX_BACKUPS

\* The read accessors of the store
ReadAccessors == Accessors \cup {"getJudgmentsForWeek", "listBackups"}

\* C30: a read accessor called while the primary file parses makes no
\* file-system change: primary and backups stay as they were.  Called while
\* the primary file is missing or does not parse, the one change it makes is
\* the write of the default dataset to the primary file (listBackups does
\* not load the dataset and changes nothing).
C30_AccessorsDoNotWrite ==
  [][ (nops' = nops + 1 /\ last'.op \in ReadAccessors)
      => IF Parses(primary) \/ last'.op = "listBackups"
         THEN trace' = <<>> /\ primary' = primary /\ backups' = backups
         ELSE /\ trace' = << [op |-> "write", old |-> primary, file |-> Serialize(defaultDb)] >>
              /\ primary' = Serialize(defaultDb)
              /\ backups' = backups
    ]_vars

\* The parts whose filename attribute is present and empty
EmptyFilename == {k \in 1..Len(Parts) : AttrOf(Parts[k], FilenameKey) = <<>>}

\* C25: a part whose filename attribute is the empty string produces no
\* attachment and no file (the attachments and the files written are as many
\* as the parts with a non-empty filename), and, when it has a name, it is a
\* field under that name, with its body as the value unless a later part has
\* the same name.
C25_EmptyFilenameIsField ==
  last.op = "parseMultipart"
    => /\ Len(Result.files) = Cardinality({k \in 1..Len(Parts) : HasFile(Parts[k])})
       /\ Cardinality(Events("writeFile")) = Len(Result.files)
       /\ \A i \in 1..Len(Result.files) : Result.files[i].originalName # <<>>
       /\ \A k \in EmptyFilename :
            HasName(Parts[k])
              => /\ AttrOf(Parts[k], NameKey) \in DOMAIN Result.fields
                 /\ (\A j \in (k + 1)..Len(Parts) :
                       AttrOf(Parts[j], NameKey) # AttrOf(Parts[k], NameKey))
                      => Result.fields[AttrOf(Parts[k], NameKey)] = Parts[k].body

\* A form with a file and then a part with filename="" and a body was parsed:
\* one attachment, one file written, the second part's body is a field.
C25_Witness ==
  /\ last.op = "parseMultipart"
  /\ Len(Parts) = 2
  /\ HasFile(Parts[1]) /\ HasName(Parts[1])
  /\ EmptyFilename = {2} /\ Parts[2].body = <<"B">>
  /\ Len(Result.files) = 1
  /\ Cardinality(Events("writeFile")) = 1
  /\ Result.fields = (<<"t">> :> <<"B">>)

\* The segment of a part, as it stands between two delimiters, holds
\* CR LF CR LF
HasSeparator(p) ==
  IndexOf(CRLF \o ContentDisposition \o AttrText(p.attrs) \o Separator(p) \o p.body \o CRLF,
          CRLF \o CRLF, 1) # 0

\* The parts of the request whose segment holds the separator
WellFormed == SelectSeq(Parts, LAMBDA p : HasSeparator(p))

\* C21: the parse of a request returns, and returns and writes what the
\* parse of the same request without its separator-less segments returns and
\* writes: the fields are the names of the remaining parts without a
\* filename, the attachments are the remaining parts with one, in order.
C21_SeparatorlessSegmentDropped ==
  last.op = "parseMultipart"
    => /\ last.ret.kind = "value"
       /\ LET r == parseMultipart(Encode(WellFormed, Boundary), Boundary)
          IN Result.fields = r.fields /\ Result.files = r.files /\ trace = r.calls
       /\ DOMAIN Result.fields =
            {AttrOf(WellFormed[k], NameKey) :
               k \in {i \in 1..Len(WellFormed) : ~HasFilename(WellFormed[i])}}
       /\ [i \in 1..Len(Result.files) |-> Result.files[i].originalName] = Filenames(WellFormed)

\* A request of a segment for field s without the blank line, a file and a
\* segment without header was parsed: the file is the whole result.
C21_Witness ==
  /\ last.op = "parseMultipart"
  /\ Len(Parts) >= 2
  /\ ~HasSeparator(Parts[1]) /\ HasName(Parts[1])
  /\ HasSeparator(Parts[2]) /\ HasFile(Parts[2])
  /\ \A k \in 3..Len(Parts) : ~HasSeparator(Parts[k])
  /\ Len(Result.files) = 1 /\ Result.files[1].fieldName = <<"p">>
  /\ Result.fields = <<>>

\* Bytes above 0x7f that continue a UTF-8 sequence (10xxxxxx)
Continuation == {"xA9"}

RECURSIVE Utf8(_)
\* The UTF-8 decoding of a byte sequence over the ASCII bytes, C3 and A9:
\* C3 A9 is U+00E9, a byte that starts or continues no sequence is U+FFFD
Utf8(bytes) ==
  IF bytes = <<>> THEN <<>>
  ELSE IF Head(bytes) \notin HighBytes THEN << Head(bytes) >> \o Utf8(Tail(bytes))
  ELSE IF Head(bytes) = "xC3" /\ Len(bytes) >= 2 /\ bytes[2] \in Continuation
  THEN << "U+00E9" >> \o Utf8(SubSeq(bytes, 3, Len(bytes)))
  ELSE << "U+FFFD" >> \o Utf8(Tail(bytes))

\* The parts that are text fields: a name, no filename attribute, a separator
FieldParts ==
  {k \in 1..Len(Parts) :
     HasName(Parts[k]) /\ ~HasFilename(Parts[k]) /\ HasSeparator(Parts[k])}

\* C22: the value stored under a field name is the UTF-8 decoding of the body
\* of the last text-field part with that name (the body as sent: the bytes
\* of the segment after the separator, less the one CR LF before the next
\* delimiter).
C22_FieldValueUtf8 ==
  last.op = "parseMultipart"
    => \A k \in FieldParts :
         (\A j \in FieldParts : j > k => AttrOf(Parts[j], NameKey) # AttrOf(Parts[k], NameKey))
           => /\ AttrOf(Parts[k], NameKey) \in DOMAIN Result.fields
              /\ Result.fields[AttrOf(Parts[k], NameKey)] = Utf8(Parts[k].body)

\* C23: the parse makes no file-system call: it creates no directory and
\* writes no file.
C23_ParserWritesNothing ==
  last.op = "parseMultipart" => (Events("mkdir") = {} /\ Events("writeFile") = {})

\* The status of the week in the dataset a call made now would read;
\* "none" when the schedule has no such week
StatusOf(weekNum) ==
  LET i == WeekIndex(Loaded.schedule, weekNum)
  IN IF i = 0 THEN "none" ELSE Loaded.schedule[i].status

\* A submit request without boundary has come through the handler's checks
\* of week and member: the handler has reached the parse
ParseWithoutBoundary ==
  /\ nops' = nops + 1
  /\ last'.op = "submit"
  /\ "boundary" \notin DOMAIN last'.req.contentType
  /\ StatusOf(last'.week) \notin {"none", "completed"}

\* C24 as stated: a submit request without boundary is answered 400 in the
\* step that receives it; no directory is made and no file written for its
\* attachment, and the primary file and the backups stay as they were.
C24_NoBoundaryRejected ==
  [][ ParseWithoutBoundary
      => /\ last'.ret = Http(400)
         /\ inflight'[last'.id] = Responded(400)
         /\ trace' = <<>>
         /\ primary' = primary /\ backups' = backups
    ]_vars

\* C24, amended: a submit request without boundary is answered 400 in the
\* step that receives it; no directory is made and no file written for its
\* attachment.  When the primary file parses the handler makes no
\* file-system call and primary and backups stay as they were; when it is
\* missing or does not parse, the only overwrite is the one by which the
\* handler's first read persists the default dataset.
C24_NoBoundaryRejectedAmended ==
  [][ ParseWithoutBoundary
      => /\ last'.ret = Http(400)
         /\ inflight'[last'.id] = Responded(400)
         /\ \A k \in 1..Len(trace') : trace'[k].op \notin {"mkdir", "writeFile"}
         /\ IF Parses(primary)
            THEN trace' = <<>> /\ primary' = primary /\ backups' = backups
            ELSE /\ Cardinality({k \in 1..Len(trace') : trace'[k].op = "write"}) = 1
                 /\ \A k \in 1..Len(trace') :
                      trace'[k].op = "write" => trace'[k].file = Serialize(defaultDb)
                 /\ primary' = Serialize(defaultDb)
    ]_vars

\* A submit request with a photo and no boundary was rejected by a store in
\* service: 400, no file-system call, primary and backup as the run found
\* them.
C24_Witness ==
  /\ last.op = "submit"
  /\ "boundary" \notin DOMAIN last.req.contentType
  /\ Len(last.req.parts) = 2 /\ HasFile(last.req.parts[2])
  /\ last.ret = Http(400)
  /\ trace = <<>>
  /\ primary = Serialize(SeedDb) /\ backups = EarlierBackups(1)

\* C28: when the submit handler stores a submission for a week, the week is
\* not completed in the dataset the store write starts from.
C28_NoSubmissionToCompletedWeek ==
  [][ (nops' = nops + 1 /\ last'.op = "submitParsed" /\ last'.ret = Http(201))
      => StatusOf(last'.week) # "completed"
    ]_vars

====
